---------------------------- MODULE Spec2Model ----------------------------
(***************************************************************************)
(* CourseMate: a single-user study organiser (courses, notes, tasks, a    *)
(* Pomodoro timer).  Two of the repository's programs are modelled:       *)
(*   src/Claude_AI_Sample_Program.py  the full variant  (variant "main")  *)
(*   src/cousrsemate-master1.py       the single-file variant ("master1") *)
(* Text is a sequence of one-character strings, so that strip(), lower()  *)
(* and the substring test are computed and not assumed.                    *)
(***************************************************************************)
EXTENDS Integers, Sequences, FiniteSets, TLC

VARIABLES
    pomodoro_running,     \* self.pomodoro_running
    pomodoro_mode,        \* self.pomodoro_mode
    pomodoro_time_left,   \* self.pomodoro_time_left
    pomodoro_timer_id,    \* self.pomodoro_timer_id: None, or the id of the last after() call
    session_start_time,   \* self.session_start_time: None, or a datetime
    pomodoro_count,       \* self.pomodoro_count
    study_sessions,       \* self.study_sessions
    after_countdown,      \* Tk's pending after() callbacks of _update_pomodoro_timer
    sessions_file,        \* coursemate_data/study_sessions.json
    sessions_loaded,      \* history: len(self.study_sessions) when _load_data returned
    variant,              \* which program runs: "main" or "master1"
    courses,              \* self.courses: a dict in insertion order, as a sequence of entries
    courses_file,         \* coursemate_data/courses.json
    notes_windows,        \* the open "Notes: <course>" windows of view_course_notes
    search_results,       \* the open "Search Results" windows of _display_search_results
    outcome,              \* how the last operation ended
    tasks,                \* master1: self.tasks
    completed_tasks,      \* master1: self.completed_tasks
    data_file,            \* master1: coursemate_data.json
    app,                  \* "running" from __init__ on, "closed" once the root window is destroyed
    load_failed,          \* history: the files whose load raised in this run's _load_data
    last_saved,           \* history: self.courses as the last successful _save_courses wrote it
    todo_list,            \* self.todo_list
    todo_file,            \* coursemate_data/todo_list.json
    scratchpad_content,   \* self.scratchpad_content
    scratchpad_file,      \* coursemate_data/scratchpad.txt
    after_auto_save,      \* Tk holds a pending after() callback of _auto_save
    after_rotate_quote    \* Tk holds a pending after() callback of _rotate_quote

pomodoro_vars == <<pomodoro_running, pomodoro_mode, pomodoro_time_left, pomodoro_timer_id,
                   session_start_time, pomodoro_count, study_sessions, after_countdown,
                   sessions_file, sessions_loaded>>

course_vars == <<variant, courses, courses_file, notes_windows, search_results, outcome>>

task_vars == <<tasks, completed_tasks, data_file>>

run_vars == <<app, load_failed, last_saved>>

desk_vars == <<todo_list, todo_file, scratchpad_content, scratchpad_file, after_auto_save,
               after_rotate_quote>>

vars == <<pomodoro_vars, course_vars, task_vars, run_vars, desk_vars>>

None == "None"

(***************************************************************************)
(* Bounds of the model.                                                    *)
(***************************************************************************)
MaxCount == 5          \* Work intervals that may be started in one run of the program
MaxLoaded == 1         \* study sessions already in the log at startup

(***************************************************************************)
(* Files.  A file is absent, unreadable/malformed, or holds a value.       *)
(***************************************************************************)
Absent == [st |-> "absent"]
Corrupt == [st |-> "corrupt"]
Stored(d) == [st |-> "ok", data |-> d]

\* The parts of the program a specification leaves alone stay as constructed.
IdleCourses ==
    /\ courses = <<>>
    /\ courses_file = Absent
    /\ notes_windows = <<>>
    /\ search_results = <<>>
    /\ outcome = None

IdleTasks ==
    /\ tasks = <<>>
    /\ completed_tasks = <<>>
    /\ data_file = Absent

NothingSaved == [saved |-> FALSE]
Saved(cs) == [saved |-> TRUE, courses |-> cs]

\* The scratchpad text _load_data puts in place when scratchpad.txt does not exist.
Welcome ==
    <<"W", "e", "l", "c", "o", "m", "e", " ", "t", "o", " ", "C", "o", "u", "r", "s", "e",
      "M", "a", "t", "e", "!", " ", "S", "t", "a", "r", "t", " ", "t", "y", "p", "i", "n",
      "g", " ", "y", "o", "u", "r", " ", "q", "u", "i", "c", "k", " ", "n", "o", "t", "e",
      "s", " ", "h", "e", "r", "e", ".">>

\* The to-do list, the scratchpad and the two periodic callbacks, which only the
\* full variant has, as __init__ leaves them on a first run.
FreshDesk ==
    /\ todo_list = <<>>
    /\ todo_file = Absent
    /\ scratchpad_content = (IF variant = "main" THEN Welcome ELSE <<>>)
    /\ scratchpad_file = Absent
    /\ after_auto_save = (variant = "main")
    /\ after_rotate_quote = (variant = "main")

\* A first run, with no data files: every load finds nothing to read.
FirstRun ==
    /\ app = "running"
    /\ load_failed = {}
    /\ last_saved = NothingSaved
    /\ FreshDesk

(***************************************************************************)
(* Text: Python str as a sequence of one-character strings.                *)
(***************************************************************************)
Whitespace == {" ", "\n", "\t"}

RECURSIVE lstrip(_)
lstrip(s) == IF s # <<>> /\ Head(s) \in Whitespace THEN lstrip(Tail(s)) ELSE s

RECURSIVE rstrip(_)
rstrip(s) ==
    IF s # <<>> /\ s[Len(s)] \in Whitespace THEN rstrip(SubSeq(s, 1, Len(s) - 1)) ELSE s

\* str.strip()
strip(s) == rstrip(lstrip(s))

UpperCase == <<"A", "B", "C", "D", "E", "F", "G", "H", "I", "J", "K", "L", "M",
               "N", "O", "P", "Q", "R", "S", "T", "U", "V", "W", "X", "Y", "Z">>
LowerCase == <<"a", "b", "c", "d", "e", "f", "g", "h", "i", "j", "k", "l", "m",
               "n", "o", "p", "q", "r", "s", "t", "u", "v", "w", "x", "y", "z">>

LowerChar(c) ==
    IF \E i \in 1..26 : UpperCase[i] = c
    THEN LowerCase[CHOOSE i \in 1..26 : UpperCase[i] = c]
    ELSE c

\* str.lower()
lower(s) == [i \in 1..Len(s) |-> LowerChar(s[i])]

\* sub in s
Contains(sub, s) ==
    \E i \in 0..(Len(s) - Len(sub)) : SubSeq(s, i + 1, i + Len(sub)) = sub

\* tk.Text.get("1.0", tk.END): the typed text and the widget's final newline.
TextGet(typed) == typed \o <<"\n">>

\* The default value of the course menu (course_var).
SelectCourse == <<"S", "e", "l", "e", "c", "t", " ", "C", "o", "u", "r", "s", "e">>

FreeformPrefix == <<"F", "r", "e", "e", "f", "o", "r", "m", " ", "N", "o", "t", "e", " ", "-", " ">>
NoteInfix == <<" ", "N", "o", "t", "e", " ", "-", " ">>

\* datetime.now() as strftime/isoformat render it: one representative instant.
Timestamps == {<<"0", "1">>}

(***************************************************************************)
(* Template catalog.                                                       *)
(***************************************************************************)
TemplateKeys == {"Cornell", "Frayer", "MainIdea", "Polya", "5W1H", "ConceptMap",
                 "KWLH", "SQ3R", "Timeline", "Feynman", "TwoColumn"}

\* TEMPLATE_FIELDS.get(k, [])
TEMPLATE_FIELDS(k) ==
    CASE k = "Cornell" -> <<"Keywords/Cues (Left Column)", "Notes (Right Column)", "Summary (Bottom)">>
      [] k = "Frayer" -> <<"Concept/Term", "Definition (What it is)", "Characteristics (Facts)", "Examples", "Non-Examples">>
      [] k = "MainIdea" -> <<"Main Topic", "Core Idea/Thesis", "Supporting Detail 1", "Supporting Detail 2", "Supporting Detail 3">>
      [] k = "Polya" -> <<"Step 1: Understand the Problem", "Step 2: Devise a Plan", "Step 3: Carry out the Plan", "Step 4: Look Back/Review">>
      [] k = "5W1H" -> <<"What is the problem/subject?", "Why is it important?", "When did it happen/occur?", "Where is it applied?", "Who is involved?", "How does it work/How to solve it?">>
      [] k = "ConceptMap" -> <<"Central Concept", "Related Concept 1", "Related Concept 2", "Linking Words (Concept 1 to 2)">>
      [] k = "KWLH" -> <<"K: What I KNOW", "W: What I WANT to know", "L: What I LEARNED", "H: HOW I can learn more (Application)">>
      [] k = "SQ3R" -> <<"Survey (Title, Headings)", "Question (Convert Headings to Questions)", "Read (Active Note-taking)", "Recite (Answer Questions)", "Review (Self-Test)">>
      [] k = "Timeline" -> <<"Starting Event/Date", "Intermediate Event/Date 1", "Intermediate Event/Date 2", "Final Event/Outcome", "Notes on Significance">>
      [] k = "Feynman" -> <<"Concept Name", "Explain in Simple Terms", "Identify Knowledge Gaps", "Simplify and Use Analogies">>
      [] k = "TwoColumn" -> <<"Problem/Question", "Solution/Answer">>
      [] OTHER -> <<>>

\* str(template_key) inside the f-string of the note title.
KeyText(k) ==
    CASE k = "Cornell" -> <<"C", "o", "r", "n", "e", "l", "l">>
      [] k = "Frayer" -> <<"F", "r", "a", "y", "e", "r">>
      [] k = "MainIdea" -> <<"M", "a", "i", "n", "I", "d", "e", "a">>
      [] k = "Polya" -> <<"P", "o", "l", "y", "a">>
      [] k = "5W1H" -> <<"5", "W", "1", "H">>
      [] k = "ConceptMap" -> <<"C", "o", "n", "c", "e", "p", "t", "M", "a", "p">>
      [] k = "KWLH" -> <<"K", "W", "L", "H">>
      [] k = "SQ3R" -> <<"S", "Q", "3", "R">>
      [] k = "Timeline" -> <<"T", "i", "m", "e", "l", "i", "n", "e">>
      [] k = "Feynman" -> <<"F", "e", "y", "n", "m", "a", "n">>
      [] k = "TwoColumn" -> <<"T", "w", "o", "C", "o", "l", "u", "m", "n">>
      [] OTHER -> <<"?">>

(***************************************************************************)
(* Courses and notes of the full variant.  An operation is an operator     *)
(* from the dict (and its inputs) to the new dict, how the operation       *)
(* ended, and whether it called _save_courses.                             *)
(***************************************************************************)
\* name in self.courses
HasCourse(cs, name) == \E i \in 1..Len(cs) : cs[i].name = name

CourseAt(cs, name) == CHOOSE i \in 1..Len(cs) : cs[i].name = name

CourseNames(cs) == {cs[i].name : i \in 1..Len(cs)}

\* self.courses[name]['notes']
NotesOf(cs, name) == cs[CourseAt(cs, name)].notes

Result(cs, how, saved) == [courses |-> cs, outcome |-> how, saved |-> saved]

\* A note as the full variant builds it: the tuple (title, content), content a
\* str or a dict.  "shape" is the Python type of the pair (tuple here, list
\* after json.load).
StrContent(text) == [kind |-> "str", text |-> text]
DictContent(items) == [kind |-> "dict", items |-> items]
Note(shape, title, content) == [shape |-> shape, title |-> title, content |-> content]

\* Mutant: an existing name is overwritten by a fresh, empty course.
save_course_overwrites(cs, name_entry, code_entry, instructor_entry, now) ==
    LET name == strip(name_entry)
        fresh == [name |-> name, code |-> strip(code_entry),
                  instructor |-> strip(instructor_entry), tasks |-> <<>>,
                  notes |-> <<>>, created_date |-> now, total_study_time |-> 0]
    IN IF name = <<>> THEN Result(cs, "EmptyName", FALSE)
       ELSE IF HasCourse(cs, name)
       THEN Result([cs EXCEPT ![CourseAt(cs, name)] = fresh], "ok", TRUE)
       ELSE Result(Append(cs, fresh), "ok", TRUE)

\* add_new_course_dialog.save_course
save_course(cs, name_entry, code_entry, instructor_entry, now) ==
    LET name == strip(name_entry)
        code == strip(code_entry)
        instructor == strip(instructor_entry)
    IN IF name = <<>> THEN Result(cs, "EmptyName", FALSE)
       ELSE IF HasCourse(cs, name) THEN Result(cs, "DuplicateName", FALSE)
       ELSE Result(Append(cs, [name |-> name, code |-> code,
                               instructor |-> instructor, tasks |-> <<>>,
                               notes |-> <<>>, created_date |-> now,
                               total_study_time |-> 0]),
                   "ok", TRUE)

\* del self.courses[name]
DictDelete(cs, name) == SelectSeq(cs, LAMBDA e : e.name # name)

delete_course(cs, course_name, yes) ==
    IF ~yes THEN Result(cs, "Cancelled", FALSE)
    ELSE IF ~HasCourse(cs, course_name) THEN Result(cs, "KeyError", FALSE)
    ELSE Result(DictDelete(cs, course_name), "ok", TRUE)

\* self.courses[course]['notes'].append(note)
AppendNote(cs, course, note) ==
    [cs EXCEPT ![CourseAt(cs, course)].notes = Append(@, note)]

\* Mutant: the emptiness test is skipped.
save_freeform_note_unchecked(cs, course, content_widget, title_widget, now) ==
    LET content == strip(TextGet(content_widget))
        title == IF strip(title_widget) # <<>> THEN strip(title_widget)
                 ELSE FreeformPrefix \o now
    IN IF course = SelectCourse THEN Result(cs, "NoCourseSelected", FALSE)
       ELSE IF ~HasCourse(cs, course) THEN Result(cs, "KeyError", FALSE)
       ELSE Result(AppendNote(cs, course, Note("tuple", title, StrContent(content))),
                   "ok", TRUE)

save_freeform_note(cs, course, content_widget, title_widget, now) ==
    LET content == strip(TextGet(content_widget))
        title == IF strip(title_widget) # <<>> THEN strip(title_widget)
                 ELSE FreeformPrefix \o now
    IN IF course = SelectCourse THEN Result(cs, "NoCourseSelected", FALSE)
       ELSE IF content = <<>> THEN Result(cs, "EmptyContent", FALSE)
       ELSE IF ~HasCourse(cs, course) THEN Result(cs, "KeyError", FALSE)
       ELSE Result(AppendNote(cs, course, Note("tuple", title, StrContent(content))),
                   "ok", TRUE)

\* The form of _setup_template_form: one widget per label of the template, in
\* order; field_inputs[i] is what was typed into the i-th.  A Text widget adds a
\* newline that strip() removes again, so both widget kinds read as strip(typed).
note_data_of(template_key, field_inputs) ==
    [i \in 1..Len(TEMPLATE_FIELDS(template_key)) |->
        [key |-> TEMPLATE_FIELDS(template_key)[i], value |-> strip(field_inputs[i])]]

all_empty(note_data) == \A i \in 1..Len(note_data) : note_data[i].value = <<>>

save_template_note(cs, template_key, course, field_inputs, now) ==
    LET note_data == note_data_of(template_key, field_inputs)
        note_title == KeyText(template_key) \o NoteInfix \o now
    IN IF course = SelectCourse THEN Result(cs, "NoCourseSelected", FALSE)
       ELSE IF all_empty(note_data) THEN Result(cs, "EmptyContent", FALSE)
       ELSE IF ~HasCourse(cs, course) THEN Result(cs, "KeyError", FALSE)
       ELSE Result(AppendNote(cs, course, Note("tuple", note_title, DictContent(note_data))),
                   "ok", TRUE)


\* view_course_notes: a Toplevel whose listbox holds one row per note of the
\* course at the time it was opened.  The window keeps the course name in its
\* buttons' closures; listbox holds note[0] of each note drawn and rows is the
\* number of listbox rows.
NotesWindow(course_name, notes) ==
    [course |-> course_name, rows |-> Len(notes),
     listbox |-> [i \in 1..Len(notes) |-> notes[i].title]]

view_course_notes(cs, wins, course_name) ==
    IF ~HasCourse(cs, course_name) THEN [windows |-> wins, outcome |-> "NotFound"]
    ELSE [windows |-> Append(wins, NotesWindow(course_name, NotesOf(cs, course_name))),
          outcome |-> "ok"]

\* export_course_notes: nothing of the program's state changes; filename is
\* whether the file dialog returned one.
export_course_notes(cs, course_name, filename) ==
    IF ~HasCourse(cs, course_name) THEN "NotFound"
    ELSE IF filename THEN "ok" ELSE "Cancelled"

\* del lst[idx] with a 1-based idx
DelAt(lst, idx) == SubSeq(lst, 1, idx - 1) \o SubSeq(lst, idx + 1, Len(lst))

RemoveWindow(wins, w) == DelAt(wins, w)

\* Mutant: the last note of the course is removed, whatever row is selected.
delete_selected_note_pops_last(cs, wins, w, selection, yes) ==
    LET course_name == wins[w].course
        idx == selection
        Same(how) == [courses |-> cs, windows |-> wins, outcome |-> how, saved |-> FALSE]
    IN IF selection = 0 THEN Same("NoSelection")
       ELSE IF ~HasCourse(cs, course_name) THEN Same("KeyError")
       ELSE IF idx > Len(NotesOf(cs, course_name)) THEN Same("IndexError")
       ELSE IF ~yes THEN Same("Cancelled")
       ELSE LET cs2 == [cs EXCEPT ![CourseAt(cs, course_name)].notes =
                                       SubSeq(@, 1, Len(@) - 1)]
            IN [courses |-> cs2,
                windows |-> view_course_notes(cs2, RemoveWindow(wins, w), course_name).windows,
                outcome |-> "ok", saved |-> TRUE]

\* delete_selected_note(course_name, listbox, window): selection is the row
\* selected in the listbox of window w, counted from 1, or 0 when
\* listbox.curselection() is empty.  The subscripts of
\* self.courses[course_name]['notes'][idx] raise KeyError and IndexError; neither
\* is caught, and Tk's callback wrapper reports the traceback.
delete_selected_note(cs, wins, w, selection, yes) ==
    LET course_name == wins[w].course
        idx == selection
        Same(how) == [courses |-> cs, windows |-> wins, outcome |-> how, saved |-> FALSE]
    IN IF selection = 0 THEN Same("NoSelection")
       ELSE IF ~HasCourse(cs, course_name) THEN Same("KeyError")
       ELSE IF idx > Len(NotesOf(cs, course_name)) THEN Same("IndexError")
       ELSE IF ~yes THEN Same("Cancelled")
       ELSE LET cs2 == [cs EXCEPT ![CourseAt(cs, course_name)].notes = DelAt(@, idx)]
            IN [courses |-> cs2,
                windows |-> view_course_notes(cs2, RemoveWindow(wins, w), course_name).windows,
                outcome |-> "ok", saved |-> TRUE]

\* json.dump writes a tuple, like a list, as an array, and json.load returns
\* every array as a list: a note appended as (title, content) comes back as
\* [title, content].  Strings, numbers and the order of the keys of a dict are
\* written and read back as they are.
json_dump_note(note) == [note EXCEPT !.shape = "array"]

\* Mutant: a field left empty is not written (the `if content:` of _save_scratchpad).
json_dump_skips_empty(cs) ==
    [i \in 1..Len(cs) |->
        [cs[i] EXCEPT !.notes =
            [j \in 1..Len(cs[i].notes) |->
                LET note == json_dump_note(cs[i].notes[j])
                IN IF note.content.kind = "dict"
                   THEN [note EXCEPT !.content.items = SelectSeq(@, LAMBDA it : it.value # <<>>)]
                   ELSE note]]]

\* json.dump(self.courses, f, indent=2): the document written.
json_dump(cs) ==
    [i \in 1..Len(cs) |->
        [cs[i] EXCEPT !.notes = [j \in 1..Len(cs[i].notes) |-> json_dump_note(cs[i].notes[j])]]]

json_load_note(element) == [element EXCEPT !.shape = "list"]

\* json.load(f) of a document json_dump wrote.
json_load(doc) ==
    [i \in 1..Len(doc) |->
        [doc[i] EXCEPT !.notes = [j \in 1..Len(doc[i].notes) |-> json_load_note(doc[i].notes[j])]]]

\* _save_courses: ok is whether open() and json.dump succeeded; the exception is
\* caught and shown, and the file is taken to keep its previous content.
save_courses(file, cs, ok) == IF ok THEN Stored(json_dump(cs)) ELSE file

\* The courses part of _load_data: a missing file gives {}, and so does a file
\* that cannot be read or parsed, after the "Load Error" dialog.
load_courses(file) ==
    IF file.st = "absent" THEN [courses |-> <<>>, failed |-> FALSE]
    ELSE IF file.st = "corrupt" THEN [courses |-> <<>>, failed |-> TRUE]
    ELSE [courses |-> json_load(file.data), failed |-> FALSE]

\* The study sessions part of _load_data: the bare except gives [] in silence.
load_study_sessions(file) ==
    IF file.st = "absent" THEN [sessions |-> <<>>, failed |-> FALSE]
    ELSE IF file.st = "corrupt" THEN [sessions |-> <<>>, failed |-> TRUE]
    ELSE [sessions |-> file.data, failed |-> FALSE]

(***************************************************************************)
(* Courses and notes of the single-file variant.  One window; every view   *)
(* is redrawn after a change, and one file holds courses and tasks.        *)
(***************************************************************************)
M1NotePrefix == <<"N", "o", "t", "e", " ", "-", " ">>
M1TemplateInfix == <<" ", "-", " ">>

\* open_template.TEMPLATES.get(k, [])
TEMPLATES(k) ==
    CASE k = "Polya" -> <<"Step 1: Understand the Problem", "Step 2: Devise a Plan", "Step 3: Carry out the Plan", "Step 4: Look Back/Review">>
      [] k = "5W1H" -> <<"What is the problem?", "Why is it important?", "When did it happen?", "Where is it applied?", "Who is involved?", "How does it work?">>
      [] k = "ConceptMap" -> <<"Central Concept", "Related Concept 1", "Related Concept 2", "Connection/Relationship">>
      [] k = "Cornell" -> <<"Keywords/Cues (Left Column)", "Notes (Right Column)", "Summary (Bottom)">>
      [] k = "Frayer" -> <<"Concept/Term", "Definition", "Characteristics", "Examples", "Non-Examples">>
      [] k = "MainIdea" -> <<"Main Topic", "Core Idea/Thesis", "Supporting Detail 1", "Supporting Detail 2", "Supporting Detail 3">>
      [] OTHER -> <<>>

\* Mutant: names are compared without regard to case.
add_course_ignores_case(cs, answered, name) ==
    IF answered /\ strip(name) # <<>>
    THEN IF \E i \in 1..Len(cs) : lower(cs[i].name) = lower(strip(name))
         THEN Result(cs, "DuplicateName", FALSE)
         ELSE Result(Append(cs, [name |-> strip(name), notes |-> <<>>, tasks |-> <<>>]),
                     "ok", TRUE)
    ELSE IF answered THEN Result(cs, "EmptyName", FALSE)
    ELSE Result(cs, "Cancelled", FALSE)

\* name is what simpledialog.askstring returned: the text typed, or None on
\* Cancel (answered = FALSE).
add_course(cs, answered, name) ==
    IF answered /\ strip(name) # <<>>
    THEN IF HasCourse(cs, strip(name)) THEN Result(cs, "DuplicateName", FALSE)
         ELSE Result(Append(cs, [name |-> strip(name), notes |-> <<>>, tasks |-> <<>>]),
                     "ok", TRUE)
    ELSE IF answered THEN Result(cs, "EmptyName", FALSE)
    ELSE Result(cs, "Cancelled", FALSE)

m1_delete_course(cs, name, yes) == delete_course(cs, name, yes)

\* show_freeform.save_note
save_note(cs, course, title_entry, text_widget, now) ==
    LET title == strip(title_entry)
        content == strip(TextGet(text_widget))
    IN IF course = SelectCourse THEN Result(cs, "NoCourseSelected", FALSE)
       ELSE IF content = <<>> THEN Result(cs, "EmptyContent", FALSE)
       ELSE IF ~HasCourse(cs, course) THEN Result(cs, "KeyError", FALSE)
       ELSE Result(AppendNote(cs, course,
                       [title |-> IF title = <<>> THEN M1NotePrefix \o now ELSE title,
                        content |-> content, created |-> now]),
                   "ok", TRUE)

m1_note_data_of(template_key, field_inputs) ==
    [i \in 1..Len(TEMPLATES(template_key)) |->
        [key |-> TEMPLATES(template_key)[i], value |-> strip(TextGet(field_inputs[i]))]]

\* Mutant: a template whose every field is blank is saved all the same.
save_template_unchecked(cs, template_key, course, field_inputs, now) ==
    IF course = SelectCourse THEN Result(cs, "NoCourseSelected", FALSE)
    ELSE IF ~HasCourse(cs, course) THEN Result(cs, "KeyError", FALSE)
    ELSE Result(AppendNote(cs, course,
                    [title |-> KeyText(template_key) \o M1TemplateInfix \o now,
                     template |-> template_key,
                     data |-> m1_note_data_of(template_key, field_inputs),
                     created |-> now]),
                "ok", TRUE)

\* open_template.save_template
save_template(cs, template_key, course, field_inputs, now) ==
    LET note_data == m1_note_data_of(template_key, field_inputs)
    IN IF course = SelectCourse THEN Result(cs, "NoCourseSelected", FALSE)
       ELSE IF all_empty(note_data) THEN Result(cs, "EmptyContent", FALSE)
       ELSE IF ~HasCourse(cs, course) THEN Result(cs, "KeyError", FALSE)
       ELSE Result(AppendNote(cs, course,
                       [title |-> KeyText(template_key) \o M1TemplateInfix \o now,
                        template |-> template_key, data |-> note_data, created |-> now]),
                   "ok", TRUE)

\* Mutant: the note is removed and _save_data is not called.
delete_note_unsaved(cs, course_name, note_index, yes) ==
    IF ~HasCourse(cs, course_name) THEN Result(cs, "KeyError", FALSE)
    ELSE IF note_index > Len(NotesOf(cs, course_name)) THEN Result(cs, "IndexError", FALSE)
    ELSE IF ~yes THEN Result(cs, "Cancelled", FALSE)
    ELSE Result([cs EXCEPT ![CourseAt(cs, course_name)].notes = DelAt(@, note_index)],
                "ok", FALSE)

\* delete_note(course_name, note_index), note_index 1-based here
delete_note(cs, course_name, note_index, yes) ==
    IF ~HasCourse(cs, course_name) THEN Result(cs, "KeyError", FALSE)
    ELSE IF note_index > Len(NotesOf(cs, course_name)) THEN Result(cs, "IndexError", FALSE)
    ELSE IF ~yes THEN Result(cs, "Cancelled", FALSE)
    ELSE Result([cs EXCEPT ![CourseAt(cs, course_name)].notes = DelAt(@, note_index)],
                "ok", TRUE)

\* _save_data: courses, tasks and completed tasks go to the one file together.
save_data(file, cs, ts, done, ok) ==
    IF ok THEN Stored([courses |-> cs, tasks |-> ts, completed_tasks |-> done]) ELSE file


(***************************************************************************)
(* Pomodoro timer.                                                         *)
(***************************************************************************)
POMODORO_MODES(m) ==
    CASE m = "Work" -> 25 * 60
      [] m = "Short Break" -> 5 * 60
      [] m = "Long Break" -> 15 * 60

Modes == {"Work", "Short Break", "Long Break"}

\* The record appended by a completed Work interval.  "date" is datetime.now(),
\* which only the statistics window displays; it is not modelled.
WorkSession == [duration |-> POMODORO_MODES("Work"), mode |-> "Pomodoro"]

\* The timer's fields as one value; the operators below transform it the way the
\* methods transform self.  live: the callback named by timer_id is pending;
\* stale: pending callbacks that timer_id no longer names; wrote: the number of
\* _save_study_sessions calls made.
PomodoroState ==
    [running |-> pomodoro_running, mode |-> pomodoro_mode,
     time_left |-> pomodoro_time_left, timer_id |-> pomodoro_timer_id,
     sst |-> session_start_time, count |-> pomodoro_count,
     sessions |-> study_sessions, live |-> after_countdown.live,
     stale |-> after_countdown.stale, wrote |-> 0]

\* Mutant: pausing clears running and leaves the scheduled callback in place.
pause_pomodoro_no_cancel(p) ==
    IF p.running /\ p.timer_id # None
    THEN [p EXCEPT !.running = FALSE]
    ELSE p

\* Mutant: pausing also puts the mode's full duration back.
pause_pomodoro_rewinds(p) ==
    IF p.running /\ p.timer_id # None
    THEN [p EXCEPT !.running = FALSE, !.live = FALSE,
                   !.time_left = POMODORO_MODES(p.mode)]
    ELSE p

pause_pomodoro(p) ==
    IF p.running /\ p.timer_id # None
    THEN [p EXCEPT !.running = FALSE, !.live = FALSE]    \* after_cancel(timer_id)
    ELSE p

\* Mutant: reset also empties the session log.
reset_pomodoro_clears_log(p, mode) ==
    LET q == pause_pomodoro(p)
        m == IF mode # None THEN mode ELSE "Work"
    IN [q EXCEPT !.mode = m, !.time_left = POMODORO_MODES(m), !.sst = None,
                 !.sessions = <<>>]

\* Mutant: a Work interval given up by reset is logged like a finished one.
reset_pomodoro_logs_abandoned(p, mode) ==
    LET q == pause_pomodoro(p)
        m == IF mode # None THEN mode ELSE "Work"
        r == IF p.mode = "Work" /\ p.sst # None
             THEN [q EXCEPT !.sessions = Append(@, WorkSession)]
             ELSE q
    IN [r EXCEPT !.mode = m, !.time_left = POMODORO_MODES(m), !.sst = None]

reset_pomodoro(p, mode) ==
    LET q == pause_pomodoro(p)
        m == IF mode # None THEN mode ELSE "Work"
    IN [q EXCEPT !.mode = m, !.time_left = POMODORO_MODES(m), !.sst = None]

\* Mutant: the long break is decided on the count before the increment.
next_mode_stale_count(mode, count) ==
    IF mode = "Work"
    THEN IF (count - 1) % 4 = 0 THEN "Long Break" ELSE "Short Break"
    ELSE "Work"

\* The mode the completion branch passes to reset_pomodoro.
next_mode(mode, count) ==
    IF mode = "Work"
    THEN IF count % 4 = 0 THEN "Long Break" ELSE "Short Break"
    ELSE "Work"

\* Mutant: a session is logged whatever the mode of the finished interval.
complete_interval_any_mode(p) ==
    LET q == [p EXCEPT !.running = FALSE]
        r == IF q.sst # None
             THEN [q EXCEPT !.sessions = Append(@, WorkSession),
                            !.wrote = @ + 1,
                            !.count = @ + 1]
             ELSE q
    IN reset_pomodoro(r, next_mode(r.mode, r.count))

\* The elif branch of _update_pomodoro_timer.
complete_interval(p) ==
    LET q == [p EXCEPT !.running = FALSE]
        r == IF q.mode = "Work" /\ q.sst # None
             THEN [q EXCEPT !.sessions = Append(@, WorkSession),
                            !.wrote = @ + 1,
                            !.count = @ + 1]
             ELSE q
    IN reset_pomodoro(r, next_mode(r.mode, r.count))

\* Mutant: the callback reschedules itself without taking a second off.
update_pomodoro_timer_no_decrement(p) ==
    IF p.running /\ p.time_left > 0
    THEN [p EXCEPT !.timer_id = "id",
                   !.stale = @ + (IF p.live THEN 1 ELSE 0),
                   !.live = TRUE]
    ELSE IF p.time_left <= 0
    THEN complete_interval(p)
    ELSE p

update_pomodoro_timer(p) ==
    IF p.running /\ p.time_left > 0
    THEN [p EXCEPT !.time_left = @ - 1,
                   !.timer_id = "id",
                   !.stale = @ + (IF p.live THEN 1 ELSE 0),
                   !.live = TRUE]
    ELSE IF p.time_left <= 0
    THEN complete_interval(p)
    ELSE p

\* Mutant: start does not record when the session began.
start_pomodoro_unstamped(p) ==
    IF ~p.running
    THEN update_pomodoro_timer([p EXCEPT !.running = TRUE])
    ELSE p

start_pomodoro(p) ==
    IF ~p.running
    THEN update_pomodoro_timer(
             [p EXCEPT !.running = TRUE,
                       !.sst = IF @ = None THEN "set" ELSE @])
    ELSE p

\* _save_study_sessions: the write succeeds (ok) or raises inside the try block.
save_study_sessions(file, sessions, ok) ==
    IF ok THEN Stored(sessions) ELSE file

\* self := p, with the file written once per _save_study_sessions call.
SetPomodoro(p, ok) ==
    /\ app = "running"
    /\ pomodoro_running' = p.running
    /\ pomodoro_mode' = p.mode
    /\ pomodoro_time_left' = p.time_left
    /\ pomodoro_timer_id' = p.timer_id
    /\ session_start_time' = p.sst
    /\ pomodoro_count' = p.count
    /\ study_sessions' = p.sessions
    /\ after_countdown' = [live |-> p.live, stale |-> p.stale]
    /\ sessions_file' = IF p.wrote > 0
                        THEN save_study_sessions(sessions_file, p.sessions, ok)
                        ELSE sessions_file
    /\ UNCHANGED <<sessions_loaded, course_vars, task_vars, run_vars, desk_vars>>

\* A Work interval may be started while the run has intervals left (model bound).
CanStart == pomodoro_mode = "Work" => pomodoro_count < MaxCount

StartPomodoro(ok) ==
    /\ CanStart
    /\ SetPomodoro(start_pomodoro(PomodoroState), ok)

PausePomodoro ==
    SetPomodoro(pause_pomodoro(PomodoroState), TRUE)

ResetPomodoro ==
    \E mode \in Modes \cup {None} :
        SetPomodoro(reset_pomodoro(PomodoroState, mode), TRUE)

\* The callbacks Tk may run next: the one timer_id names, or an older one.
PendingCountdown ==
    (IF after_countdown.live THEN {"latest"} ELSE {})
        \cup (IF after_countdown.stale > 0 THEN {"older"} ELSE {})

\* Tk takes the callback off its queue and runs _update_pomodoro_timer.
CountdownFires(ok) ==
    \E cb \in PendingCountdown :
        LET p == IF cb = "latest"
                 THEN [PomodoroState EXCEPT !.live = FALSE]
                 ELSE [PomodoroState EXCEPT !.stale = @ - 1]
        IN SetPomodoro(update_pomodoro_timer(p), ok)

\* __init__ and _load_data of the full variant, as far as the timer is concerned.
LoadedSessions == {[i \in 1..n |-> WorkSession] : n \in 0..MaxLoaded}

InitPomodoro ==
    /\ pomodoro_running = FALSE
    /\ pomodoro_mode = "Work"
    /\ pomodoro_time_left = POMODORO_MODES("Work")
    /\ pomodoro_timer_id = None
    /\ session_start_time = None
    /\ pomodoro_count = 0
    /\ after_countdown = [live |-> FALSE, stale |-> 0]
    /\ \E s \in LoadedSessions :
          /\ sessions_file = (IF s = <<>> THEN Absent ELSE Stored(s))
          /\ study_sessions = s
          /\ sessions_loaded = Len(s)
    /\ variant = "main"
    /\ IdleCourses
    /\ IdleTasks
    /\ FirstRun

IdlePomodoro ==
    /\ pomodoro_running = FALSE
    /\ pomodoro_mode = "Work"
    /\ pomodoro_time_left = POMODORO_MODES("Work")
    /\ pomodoro_timer_id = None
    /\ session_start_time = None
    /\ pomodoro_count = 0
    /\ after_countdown = [live |-> FALSE, stale |-> 0]
    /\ sessions_file = Absent
    /\ study_sessions = <<>>
    /\ sessions_loaded = 0

NextPomodoro ==
    \/ StartPomodoro(TRUE)
    \/ PausePomodoro
    \/ ResetPomodoro
    \/ CountdownFires(TRUE)

SpecPomodoro == InitPomodoro /\ [][NextPomodoro]_vars


(***************************************************************************)
(* Courses and notes: what the user can do, in either variant.             *)
(***************************************************************************)
MaxCourses == 2        \* courses held at one time
MaxNotes == 2          \* notes held at one time, over all courses
MaxWindows == 1        \* notes windows open at one time

\* What the user types.
NameEntries == {<<" ">>, <<" ", "B", " ">>, <<"b">>}
CodeEntries == {<<" ", "1">>}
InstructorEntries == {<<>>}
TitleEntries == {<<>>, <<"A", "b", " ">>}
BodyTexts == {<<" ">>, <<"a", "B", " ">>}
FieldTexts == {<<" ">>, <<"a", "B">>}

\* The templates opened in the model.
TemplateChoices == {"TwoColumn"}
M1TemplateChoices == {"Cornell"}

RECURSIVE TotalNotes(_)
TotalNotes(cs) == IF cs = <<>> THEN 0 ELSE Len(Head(cs).notes) + TotalNotes(Tail(cs))

\* The course menu of a note form: OptionMenu(["Select Course"] + keys).
CourseMenu(cs) == {SelectCourse} \cup CourseNames(cs)

\* self.courses, the windows and the file := the result of an operation.
SetCourses(r, wins, ok) ==
    /\ app = "running"
    /\ courses' = r.courses
    /\ outcome' = r.outcome
    /\ notes_windows' = wins
    /\ courses_file' = IF r.saved THEN save_courses(courses_file, r.courses, ok)
                       ELSE courses_file
    /\ last_saved' = IF r.saved /\ ok THEN Saved(r.courses) ELSE last_saved
    /\ UNCHANGED <<variant, search_results, pomodoro_vars, task_vars, app, load_failed,
                   desk_vars>>

\* The Add Course button of the dialog, with name_entry typed as the name.
AddNewCourseNamed(name_entry, ok) ==
    /\ variant = "main"
    /\ \E code_entry \in CodeEntries, instructor_entry \in InstructorEntries,
          now \in Timestamps :
          LET r == save_course(courses, name_entry, code_entry, instructor_entry, now)
          IN /\ Len(r.courses) <= MaxCourses
             /\ SetCourses(r, notes_windows, ok)

AddNewCourse(ok) == \E name_entry \in NameEntries : AddNewCourseNamed(name_entry, ok)

\* The Delete button of a course card in the Courses view.
DeleteCourseNamed(course_name, yes, ok) ==
    /\ variant = "main"
    /\ course_name \in CourseNames(courses)
    /\ SetCourses(delete_course(courses, course_name, yes), notes_windows, ok)

DeleteCourse(ok) ==
    \E course_name \in CourseNames(courses), yes \in BOOLEAN :
       DeleteCourseNamed(course_name, yes, ok)

\* The Save Note button of the freeform view, with content typed as the body.
SaveFreeformNoteOf(content, ok) ==
    /\ variant = "main"
    /\ \E course \in CourseMenu(courses), title \in TitleEntries, now \in Timestamps :
          LET r == save_freeform_note(courses, course, content, title, now)
          IN /\ TotalNotes(r.courses) <= MaxNotes
             /\ SetCourses(r, notes_windows, ok)

SaveFreeformNote(ok) == \E content \in BodyTexts : SaveFreeformNoteOf(content, ok)

\* The Save Note button of a template form, with field_inputs typed into it.
SaveTemplateNoteOf(template_key, field_inputs, ok) ==
    /\ variant = "main"
    /\ \E course \in CourseMenu(courses), now \in Timestamps :
          LET r == save_template_note(courses, template_key, course, field_inputs, now)
          IN /\ TotalNotes(r.courses) <= MaxNotes
             /\ SetCourses(r, notes_windows, ok)

SaveTemplateNote(ok) ==
    \E template_key \in TemplateChoices :
       \E field_inputs \in [1..Len(TEMPLATE_FIELDS(template_key)) -> FieldTexts] :
          SaveTemplateNoteOf(template_key, field_inputs, ok)

\* The View Notes button of a course card.
ViewCourseNotes ==
    /\ variant = "main"
    /\ Len(notes_windows) < MaxWindows
    /\ \E course_name \in CourseNames(courses) :
          LET v == view_course_notes(courses, notes_windows, course_name)
          IN SetCourses(Result(courses, v.outcome, FALSE), v.windows, TRUE)

\* The user closes a notes window.
CloseNotesWindow ==
    /\ variant = "main"
    /\ \E w \in 1..Len(notes_windows) :
          SetCourses(Result(courses, "ok", FALSE), RemoveWindow(notes_windows, w), TRUE)

\* The Export Notes button of notes window w.
ExportFromWindow(w) ==
    /\ variant = "main"
    /\ w \in 1..Len(notes_windows)
    /\ \E filename \in BOOLEAN :
          SetCourses(Result(courses,
                            export_course_notes(courses, notes_windows[w].course, filename),
                            FALSE),
                     notes_windows, TRUE)

ExportCourseNotes == \E w \in 1..Len(notes_windows) : ExportFromWindow(w)

\* The Delete Selected button of notes window w.
DeleteSelectedFromWindow(w, selection, ok) ==
    /\ variant = "main"
    /\ w \in 1..Len(notes_windows)
    /\ selection \in 0..notes_windows[w].rows
    /\ \E yes \in BOOLEAN :
          LET d == delete_selected_note(courses, notes_windows, w, selection, yes)
          IN SetCourses(Result(d.courses, d.outcome, d.saved), d.windows, ok)

DeleteSelectedNote(ok) ==
    \E w \in 1..Len(notes_windows) :
       \E selection \in 0..notes_windows[w].rows : DeleteSelectedFromWindow(w, selection, ok)

\* self.courses and the file := the result of an operation (single-file variant).
SetM1Courses(r, ok) ==
    /\ app = "running"
    /\ courses' = r.courses
    /\ outcome' = r.outcome
    /\ data_file' = IF r.saved THEN save_data(data_file, r.courses, tasks, completed_tasks, ok)
                    ELSE data_file
    /\ UNCHANGED <<variant, courses_file, notes_windows, search_results, tasks,
                   completed_tasks, pomodoro_vars, run_vars, desk_vars>>

M1AddCourseNamed(answered, name, ok) ==
    /\ variant = "master1"
    /\ LET r == add_course(courses, answered, name)
       IN /\ Len(r.courses) <= MaxCourses
          /\ SetM1Courses(r, ok)

M1AddCourse(ok) ==
    \E answered \in BOOLEAN, name \in NameEntries : M1AddCourseNamed(answered, name, ok)

M1DeleteCourseNamed(name, yes, ok) ==
    /\ variant = "master1"
    /\ name \in CourseNames(courses)
    /\ SetM1Courses(m1_delete_course(courses, name, yes), ok)

M1DeleteCourse(ok) ==
    \E name \in CourseNames(courses), yes \in BOOLEAN : M1DeleteCourseNamed(name, yes, ok)

M1SaveNoteOf(content, ok) ==
    /\ variant = "master1"
    /\ \E course \in CourseMenu(courses), title \in TitleEntries, now \in Timestamps :
          LET r == save_note(courses, course, title, content, now)
          IN /\ TotalNotes(r.courses) <= MaxNotes
             /\ SetM1Courses(r, ok)

M1SaveNote(ok) == \E content \in BodyTexts : M1SaveNoteOf(content, ok)

M1SaveTemplateOf(template_key, field_inputs, ok) ==
    /\ variant = "master1"
    /\ \E course \in CourseMenu(courses), now \in Timestamps :
          LET r == save_template(courses, template_key, course, field_inputs, now)
          IN /\ TotalNotes(r.courses) <= MaxNotes
             /\ SetM1Courses(r, ok)

M1SaveTemplate(ok) ==
    \E template_key \in M1TemplateChoices :
       \E field_inputs \in [1..Len(TEMPLATES(template_key)) -> FieldTexts] :
          M1SaveTemplateOf(template_key, field_inputs, ok)

\* A note card's Delete button in view_course, which is redrawn after every change.
M1DeleteNote(ok) ==
    /\ variant = "master1"
    /\ \E course_name \in CourseNames(courses) :
          \E note_index \in 1..Len(NotesOf(courses, course_name)), yes \in BOOLEAN :
             SetM1Courses(delete_note(courses, course_name, note_index, yes), ok)

InitCourses ==
    /\ variant \in {"main", "master1"}
    /\ IdleCourses
    /\ IdleTasks
    /\ IdlePomodoro
    /\ FirstRun

NextCourses ==
    \/ AddNewCourse(TRUE)
    \/ DeleteCourse(TRUE)
    \/ SaveFreeformNote(TRUE)
    \/ SaveTemplateNote(TRUE)
    \/ M1AddCourse(TRUE)
    \/ M1DeleteCourse(TRUE)
    \/ M1SaveNote(TRUE)
    \/ M1SaveTemplate(TRUE)
    \/ M1DeleteNote(TRUE)

SpecCourses == InitCourses /\ [][NextCourses]_vars

\* The full variant with its notes windows.
InitWindows == variant = "main" /\ IdleCourses /\ IdleTasks /\ IdlePomodoro /\ FirstRun

NextWindows ==
    \/ AddNewCourse(TRUE)
    \/ DeleteCourse(TRUE)
    \/ SaveFreeformNote(TRUE)
    \/ SaveTemplateNote(TRUE)
    \/ ViewCourseNotes
    \/ CloseNotesWindow
    \/ ExportCourseNotes
    \/ DeleteSelectedNote(TRUE)

SpecWindows == InitWindows /\ [][NextWindows]_vars


(***************************************************************************)
(* Search (full variant).                                                  *)
(***************************************************************************)
SearchResult(course_name, note_title, match) ==
    [course |-> course_name, title |-> note_title, match |-> match]

\* The inner loop over note_content.items(): the first field whose value holds
\* the query gives the one result, and the loop breaks.
RECURSIVE first_field_hit(_, _, _, _)
first_field_hit(course_name, note_title, items, query_lower) ==
    IF items = <<>> THEN <<>>
    ELSE IF Contains(query_lower, lower(Head(items).value))
    THEN <<SearchResult(course_name, note_title, <<"Found in ", Head(items).key>>)>>
    ELSE first_field_hit(course_name, note_title, Tail(items), query_lower)

\* The body of the loop over the notes of a course: what one note appends.
note_hits(course_name, note, query_lower) ==
    IF Contains(query_lower, lower(note.title))
    THEN <<SearchResult(course_name, note.title, <<"Title match">>)>>
    ELSE IF note.content.kind = "dict"
    THEN first_field_hit(course_name, note.title, note.content.items, query_lower)
    ELSE IF Contains(query_lower, lower(note.content.text))
    THEN <<SearchResult(course_name, note.title, <<"Content match">>)>>
    ELSE <<>>

RECURSIVE course_hits(_, _, _)
course_hits(course_name, notes, query_lower) ==
    IF notes = <<>> THEN <<>>
    ELSE note_hits(course_name, Head(notes), query_lower)
         \o course_hits(course_name, Tail(notes), query_lower)

RECURSIVE all_hits(_, _)
all_hits(cs, query_lower) ==
    IF cs = <<>> THEN <<>>
    ELSE course_hits(Head(cs).name, Head(cs).notes, query_lower)
         \o all_hits(Tail(cs), query_lower)

\* search_notes(query): a blank query ends in the "Please enter a search term"
\* dialog; any other opens a results window (_display_search_results).
search_notes(cs, wins, query) ==
    IF strip(query) = <<>> THEN [windows |-> wins, outcome |-> "EmptyQuery"]
    ELSE [windows |-> Append(wins, [query |-> query, results |-> all_hits(cs, lower(query))]),
          outcome |-> "ok"]

\* _show_search_dialog: askstring returns the text typed, or None on Cancel
\* (answered = FALSE); `if query:` lets only a non-empty text through.
show_search_dialog(cs, wins, answered, query) ==
    IF answered /\ query # <<>> THEN search_notes(cs, wins, query)
    ELSE [windows |-> wins, outcome |-> None]

MaxResultsWindows == 1 \* search results windows open at one time

\* What the user types as a search term.
Queries == {<<>>, <<" ">>, <<"a", "b">>, <<"B", " ">>, <<"N", "O", "T", "E">>}

\* Ctrl+F or the Search button, with query typed into the dialog.
ShowSearchDialogFor(answered, query) ==
    /\ variant = "main"
    /\ LET r == show_search_dialog(courses, search_results, answered, query)
       IN /\ Len(r.windows) <= MaxResultsWindows
          /\ search_results' = r.windows
          /\ outcome' = r.outcome
    /\ UNCHANGED <<variant, courses, courses_file, notes_windows, pomodoro_vars, task_vars,
                   run_vars, desk_vars>>

ShowSearchDialog ==
    \E answered \in BOOLEAN, query \in Queries : ShowSearchDialogFor(answered, query)

\* The user closes a results window.
CloseSearchResults ==
    /\ variant = "main"
    /\ \E w \in 1..Len(search_results) :
          /\ search_results' = DelAt(search_results, w)
          /\ outcome' = "ok"
    /\ UNCHANGED <<variant, courses, courses_file, notes_windows, pomodoro_vars, task_vars,
                   run_vars, desk_vars>>

NextSearch ==
    \/ AddNewCourse(TRUE)
    \/ SaveFreeformNote(TRUE)
    \/ SaveTemplateNote(TRUE)
    \/ ShowSearchDialog
    \/ CloseSearchResults

SpecSearch == InitWindows /\ [][NextSearch]_vars


(***************************************************************************)
(* Tasks of the single-file variant: the active list and the history of    *)
(* completed tasks, both shown on the dashboard.                            *)
(***************************************************************************)
MaxTasks == 4          \* tasks held at one time, active and completed together
DashboardRows == 10    \* completed tasks the dashboard lists, newest first

TaskLists(ts, done) == [tasks |-> ts, completed_tasks |-> done]

\* add_task: task is what askstring returned (None on Cancel: answered = FALSE).
add_task(t, answered, task) ==
    IF answered /\ task # <<>> /\ strip(task) # <<>>
    THEN [t EXCEPT !.tasks = Append(@, strip(task))]
    ELSE t

\* delete_task(index): the task is completed and moves to the history.
delete_task(t, index, now) ==
    TaskLists(DelAt(t.tasks, index),
              Append(t.completed_tasks, [task |-> t.tasks[index], completed_date |-> now]))

\* Mutant: the restored task is copied to the active list and its record stays.
restore_task_keeps_record(t, index) ==
    TaskLists(Append(t.tasks, t.completed_tasks[index].task), t.completed_tasks)

\* Mutant: the restored task is put at the head of the active list.
restore_task_to_head(t, index) ==
    TaskLists(<<t.completed_tasks[index].task>> \o t.tasks, DelAt(t.completed_tasks, index))

restore_task(t, index) ==
    TaskLists(Append(t.tasks, t.completed_tasks[index].task), DelAt(t.completed_tasks, index))

permanently_delete_task(t, index) ==
    TaskLists(t.tasks, DelAt(t.completed_tasks, index))

\* show_dashboard lists reversed(completed_tasks[-10:]); the button of row i
\* (from 0) is bound to len(completed_tasks) - 1 - i.  Rows and indexes count
\* from 1 here.
dashboard_rows(done) == IF Len(done) < DashboardRows THEN Len(done) ELSE DashboardRows

\* Mutant: the position inside the slice of the last ten, not inside the list.
actual_index_in_slice(done, row) == dashboard_rows(done) - row + 1

actual_index(done, row) == Len(done) - row + 1

\* reversed(self.completed_tasks[-10:]): the records of the rows, top row first.
reversed(seq) == [i \in 1..Len(seq) |-> seq[Len(seq) - i + 1]]

displayed_rows(done) ==
    reversed(SubSeq(done, Len(done) - dashboard_rows(done) + 1, Len(done)))

\* What the user types as a task.
TaskEntries == {<<" ">>, <<"m">>, <<" ", "n">>}

\* self.tasks, self.completed_tasks and the file := the result of an operation.
SetTasks(t, how, saved, ok) ==
    /\ app = "running"
    /\ tasks' = t.tasks
    /\ completed_tasks' = t.completed_tasks
    /\ outcome' = how
    /\ data_file' = IF saved THEN save_data(data_file, courses, t.tasks, t.completed_tasks, ok)
                    ELSE data_file
    /\ UNCHANGED <<variant, courses, courses_file, notes_windows, search_results,
                   pomodoro_vars, run_vars, desk_vars>>

Here == TaskLists(tasks, completed_tasks)

AddTask(ok) ==
    /\ variant = "master1"
    /\ \E answered \in BOOLEAN, task \in TaskEntries :
          LET t == add_task(Here, answered, task)
          IN /\ Len(t.tasks) + Len(t.completed_tasks) <= MaxTasks
             /\ SetTasks(t, IF t = Here THEN None ELSE "ok", t # Here, ok)

\* The Done button of active task index on the dashboard.
CompleteTask(index, ok) ==
    /\ variant = "master1"
    /\ index \in 1..Len(tasks)
    /\ \E now \in Timestamps : SetTasks(delete_task(Here, index, now), "ok", TRUE, ok)

\* The Restore button of a row of the dashboard's history.
RestoreTask(row, ok) ==
    /\ variant = "master1"
    /\ row \in 1..dashboard_rows(completed_tasks)
    /\ SetTasks(restore_task(Here, actual_index(completed_tasks, row)), "ok", TRUE, ok)

\* The Delete button of a row of the dashboard's history.
DeleteCompletedTask(ok) ==
    /\ variant = "master1"
    /\ \E row \in 1..dashboard_rows(completed_tasks), yes \in BOOLEAN :
          IF yes
          THEN SetTasks(permanently_delete_task(Here, actual_index(completed_tasks, row)),
                        "ok", TRUE, ok)
          ELSE SetTasks(Here, "Cancelled", FALSE, ok)

InitTasks == variant = "master1" /\ IdleCourses /\ IdleTasks /\ IdlePomodoro /\ FirstRun

NextTasks ==
    \/ AddTask(TRUE)
    \/ \E index \in 1..Len(tasks) : CompleteTask(index, TRUE)
    \/ \E row \in 1..dashboard_rows(completed_tasks) : RestoreTask(row, TRUE)
    \/ DeleteCompletedTask(TRUE)

SpecTasks == InitTasks /\ [][NextTasks]_vars


(***************************************************************************)
(* To-do list, scratchpad and statistics of the full variant.              *)
(***************************************************************************)
Priorities == {"High", "Medium", "Low"}

\* The dict save_task builds.
TodoItem(task, priority, now) ==
    [task |-> task, priority |-> priority, completed |-> FALSE, created_date |-> now]

TodoResult(list, how, saved) == [todo_list |-> list, outcome |-> how, saved |-> saved]

\* save_task of add_todo_item: the Add Task button of the dialog.
add_todo_item(list, entry, priority, now) ==
    LET task == strip(entry)
    IN IF task = <<>>
       THEN TodoResult(list, "InputError", FALSE)
       ELSE TodoResult(Append(list, TodoItem(task, priority, now)), "ok", TRUE)

\* remove_todo_item; selection is curselection()[0] + 1, or 0 for no selection.
remove_todo_item(list, selection) ==
    IF selection # 0
    THEN TodoResult(DelAt(list, selection), "ok", TRUE)
    ELSE TodoResult(list, "SelectionError", FALSE)

toggle_todo_completion(list, selection) ==
    IF selection # 0
    THEN TodoResult([list EXCEPT ![selection].completed = ~@], "ok", TRUE)
    ELSE TodoResult(list, None, FALSE)

\* _save_todolist: the write succeeds (ok) or raises inside the try block.
save_todolist(file, list, ok) == IF ok THEN Stored(list) ELSE file

\* The to-do part of _load_data: the bare except gives [] in silence.
load_todolist(file) == IF file.st = "ok" THEN file.data ELSE <<>>

\* The scratchpad part of _load_data; the bare except leaves the short greeting.
load_scratchpad(file) ==
    IF file.st = "absent" THEN Welcome
    ELSE IF file.st = "corrupt" THEN SubSeq(Welcome, 1, 22)
    ELSE file.data

\* _save_scratchpad(content): content None is the empty text here, since
\* "if content:" treats the two alike.  The assignment precedes open().
save_scratchpad(file, mem, content, ok) ==
    LET text == IF content # <<>> THEN content ELSE mem
    IN [content |-> text, file |-> IF ok THEN Stored(text) ELSE file]

\* Mutant: an exception of the write leaves the save method.
save_raises_uncaught(ok) == ~ok

\* The except clause of each _save_* method shows the error and returns: no
\* exception reaches the caller.
save_raises(ok) == FALSE

\* sum(...) of the built-in, over a sequence of numbers.
RECURSIVE sum(_)
sum(numbers) == IF numbers = <<>> THEN 0 ELSE Head(numbers) + sum(Tail(numbers))

\* The figures show_statistics computes.
show_statistics(cs, sessions, count) ==
    LET Done(ts) == Cardinality({i \in 1..Len(ts) : ts[i].completed})
    IN [total_courses |-> Len(cs),
        total_notes |-> sum([i \in 1..Len(cs) |-> Len(cs[i].notes)]),
        total_tasks |-> sum([i \in 1..Len(cs) |-> Len(cs[i].tasks)]),
        completed_tasks |-> sum([i \in 1..Len(cs) |-> Done(cs[i].tasks)]),
        total_study_minutes |-> sum([i \in 1..Len(sessions) |-> sessions[i].duration]) \div 60,
        total_pomodoros |-> count]

(***************************************************************************)
(* Persistence: runs of the program over the files the last run left.      *)
(***************************************************************************)
\* The single-file variant's _load_data, run on the fresh {} / [] / [] of
\* __init__: a missing file leaves them, a file that cannot be read or parsed
\* resets courses and tasks, and a good one is taken over.
m1_load_data(file) ==
    IF file.st = "ok"
    THEN [courses |-> file.data.courses, tasks |-> file.data.tasks,
          completed_tasks |-> file.data.completed_tasks, failed |-> FALSE]
    ELSE [courses |-> <<>>, tasks |-> <<>>, completed_tasks |-> <<>>,
          failed |-> file.st = "corrupt"]

\* What an earlier run may have left in courses.json.
StoredCourses ==
    json_dump(<<[name |-> <<"b">>, code |-> <<>>, instructor |-> <<>>, tasks |-> <<>>,
                 notes |-> <<Note("list", <<"A", "b">>, StrContent(<<"a", "B">>))>>,
                 created_date |-> <<"0", "0">>, total_study_time |-> 0]>>)

\* What an earlier run may have left in coursemate_data.json.
StoredData ==
    [courses |-> <<[name |-> <<"b">>, notes |-> <<>>, tasks |-> <<>>]>>,
     tasks |-> <<<<"m">>>>, completed_tasks |-> <<>>]

\* The program is not running; the files are what earlier runs or anything else
\* left there.
InitPersist ==
    /\ variant \in {"main", "master1"}
    /\ app = "closed"
    /\ load_failed = {}
    /\ last_saved = NothingSaved
    /\ IF variant = "main"
       THEN /\ courses_file \in {Absent, Corrupt, Stored(StoredCourses)}
            /\ sessions_file \in {Absent, Corrupt}
            /\ data_file = Absent
       ELSE /\ courses_file = Absent
            /\ sessions_file = Absent
            /\ data_file \in {Absent, Corrupt, Stored(StoredData)}
    /\ courses = <<>>
    /\ notes_windows = <<>>
    /\ search_results = <<>>
    /\ outcome = None
    /\ tasks = <<>>
    /\ completed_tasks = <<>>
    /\ pomodoro_running = FALSE
    /\ pomodoro_mode = "Work"
    /\ pomodoro_time_left = POMODORO_MODES("Work")
    /\ pomodoro_timer_id = None
    /\ session_start_time = None
    /\ pomodoro_count = 0
    /\ after_countdown = [live |-> FALSE, stale |-> 0]
    /\ study_sessions = <<>>
    /\ sessions_loaded = 0
    /\ todo_list = <<>>
    /\ todo_file = Absent
    /\ scratchpad_content = <<>>
    /\ scratchpad_file = Absent
    /\ after_auto_save = FALSE
    /\ after_rotate_quote = FALSE

\* The program is started: __init__ of the full variant, with its _load_data.
Start ==
    /\ variant = "main"
    /\ app = "closed"
    /\ app' = "running"
    /\ LET c == load_courses(courses_file)
           s == load_study_sessions(sessions_file)
       IN /\ courses' = c.courses
          /\ study_sessions' = s.sessions
          /\ sessions_loaded' = Len(s.sessions)
          /\ load_failed' = (IF c.failed THEN {"courses"} ELSE {})
                               \cup (IF s.failed THEN {"sessions"} ELSE {})
          /\ outcome' = IF c.failed THEN "LoadError" ELSE None
    /\ notes_windows' = <<>>
    /\ search_results' = <<>>
    /\ pomodoro_running' = FALSE
    /\ pomodoro_mode' = "Work"
    /\ pomodoro_time_left' = POMODORO_MODES("Work")
    /\ pomodoro_timer_id' = None
    /\ session_start_time' = None
    /\ pomodoro_count' = 0
    /\ after_countdown' = [live |-> FALSE, stale |-> 0]
    /\ todo_list' = load_todolist(todo_file)
    /\ scratchpad_content' = load_scratchpad(scratchpad_file)
    /\ after_auto_save' = TRUE
    /\ after_rotate_quote' = TRUE
    /\ UNCHANGED <<variant, courses_file, sessions_file, task_vars, last_saved, todo_file,
                   scratchpad_file>>

\* The records _auto_save and _on_closing write.
auto_save_writes == {"courses", "todo", "sessions"}

\* Mutant: closing writes what the periodic save writes.
on_closing_writes_no_scratchpad == {"courses", "todo", "sessions"}

on_closing_writes == {"courses", "todo", "scratchpad", "sessions"}

\* The save methods called for the records in which, each with its own luck.
\* self.courses, self.todo_list and self.study_sessions are only read.
SaveRecords(which, okc, okt, okp, oks) ==
    /\ courses_file' = IF "courses" \in which THEN save_courses(courses_file, courses, okc)
                       ELSE courses_file
    /\ last_saved' = IF "courses" \in which /\ okc THEN Saved(courses) ELSE last_saved
    /\ todo_file' = IF "todo" \in which THEN save_todolist(todo_file, todo_list, okt)
                    ELSE todo_file
    /\ LET r == save_scratchpad(scratchpad_file, scratchpad_content, <<>>, okp)
       IN /\ scratchpad_content' = IF "scratchpad" \in which THEN r.content
                                   ELSE scratchpad_content
          /\ scratchpad_file' = IF "scratchpad" \in which THEN r.file ELSE scratchpad_file
    /\ sessions_file' = IF "sessions" \in which
                        THEN save_study_sessions(sessions_file, study_sessions, oks)
                        ELSE sessions_file
    /\ outcome' = IF \/ "courses" \in which /\ ~okc
                     \/ "todo" \in which /\ ~okt
                     \/ "scratchpad" \in which /\ ~okp
                     \/ "sessions" \in which /\ ~oks
                  THEN "SaveError" ELSE outcome
    /\ UNCHANGED <<courses, todo_list, study_sessions>>

\* Tk runs the pending _auto_save callback: the three saves, then after(60000)
\* unless an exception left the method before that line.
AutoSaveWith(okc, okt, oks) ==
    /\ variant = "main"
    /\ app = "running"
    /\ after_auto_save
    /\ SaveRecords(auto_save_writes, okc, okt, TRUE, oks)
    /\ after_auto_save' = ~(save_raises(okc) \/ save_raises(okt) \/ save_raises(oks))
    /\ UNCHANGED <<pomodoro_running, pomodoro_mode, pomodoro_time_left, pomodoro_timer_id,
                   session_start_time, pomodoro_count, after_countdown, sessions_loaded,
                   variant, notes_windows, search_results, task_vars, app, load_failed,
                   after_rotate_quote>>

AutoSave(ok) == AutoSaveWith(ok, ok, ok)

\* Tk runs the pending _rotate_quote callback; the label it changes is not
\* modelled.
RotateQuote ==
    /\ variant = "main"
    /\ app = "running"
    /\ after_rotate_quote
    /\ after_rotate_quote' = TRUE
    /\ UNCHANGED <<pomodoro_vars, course_vars, task_vars, run_vars, todo_list, todo_file,
                   scratchpad_content, scratchpad_file, after_auto_save>>

\* Mutant: the answer to "Exit anyway?" is not looked at.
on_closing_any_answer(running, yes) == TRUE

\* _on_closing: whether the request goes on to the saves and destroy().
on_closing(running, yes) == ~running \/ yes

\* _on_closing: asks only while the timer runs; saves, then destroys the root,
\* which ends mainloop with the after() callbacks still pending.
OnClosingWith(yes, okc, okt, okp, oks) ==
    /\ variant = "main"
    /\ app = "running"
    /\ IF on_closing(pomodoro_running, yes)
       THEN /\ SaveRecords(on_closing_writes, okc, okt, okp, oks)
            /\ app' = "closed"
       ELSE UNCHANGED <<courses_file, last_saved, todo_file, scratchpad_content,
                        scratchpad_file, sessions_file, outcome, courses, todo_list,
                        study_sessions, app>>
    /\ UNCHANGED <<pomodoro_running, pomodoro_mode, pomodoro_time_left, pomodoro_timer_id,
                   session_start_time, pomodoro_count, after_countdown, sessions_loaded,
                   variant, notes_windows, search_results, task_vars, load_failed,
                   after_auto_save, after_rotate_quote>>

OnClosing(ok) == \E yes \in BOOLEAN : OnClosingWith(yes, ok, ok, ok, ok)

\* The single-file variant is started: __init__ with its _load_data.
M1Start ==
    /\ variant = "master1"
    /\ app = "closed"
    /\ app' = "running"
    /\ LET d == m1_load_data(data_file)
       IN /\ courses' = d.courses
          /\ tasks' = d.tasks
          /\ completed_tasks' = d.completed_tasks
          /\ load_failed' = IF d.failed THEN {"data"} ELSE {}
    /\ outcome' = None
    /\ UNCHANGED <<variant, courses_file, notes_windows, search_results, data_file,
                   pomodoro_vars, last_saved, desk_vars>>

\* The single-file variant's window is closed: it has no close handler.
M1Close ==
    /\ variant = "master1"
    /\ app = "running"
    /\ app' = "closed"
    /\ UNCHANGED <<pomodoro_vars, course_vars, task_vars, load_failed, last_saved, desk_vars>>

NextPersist ==
    \/ Start
    \/ AutoSave(TRUE)
    \/ OnClosing(TRUE)
    \/ AddNewCourse(TRUE)
    \/ SaveFreeformNote(TRUE)
    \/ SaveTemplateNote(TRUE)
    \/ M1Start
    \/ M1Close
    \/ M1AddCourse(TRUE)
    \/ AddTask(TRUE)

SpecPersist == InitPersist /\ [][NextPersist]_vars


(***************************************************************************)
(* The full variant at work: to-do list, scratchpad, the periodic          *)
(* callbacks, writes that may fail, and the close request.                 *)
(***************************************************************************)
MaxTodo == 2           \* items the to-do list may hold
MaxTicks == 2          \* seconds a countdown is followed below the mode's duration

\* What the user types as a task, and the priority chosen.
TodoEntries == {<<" ">>, <<" ", "n">>}
PriorityChoices == {"Medium"}

\* What the scratchpad widget holds when Save is pressed.
ScratchTexts == {<<"n", " ">>}

\* self.todo_list and the file := the result of an operation.
SetTodo(r, ok) ==
    /\ variant = "main"
    /\ app = "running"
    /\ todo_list' = r.todo_list
    /\ outcome' = r.outcome
    /\ todo_file' = IF r.saved THEN save_todolist(todo_file, r.todo_list, ok) ELSE todo_file
    /\ UNCHANGED <<variant, courses, courses_file, notes_windows, search_results,
                   pomodoro_vars, task_vars, run_vars, scratchpad_content, scratchpad_file,
                   after_auto_save, after_rotate_quote>>

AddTodoItem(ok) ==
    \E entry \in TodoEntries, priority \in PriorityChoices, now \in Timestamps :
        LET r == add_todo_item(todo_list, entry, priority, now)
        IN /\ Len(r.todo_list) <= MaxTodo
           /\ SetTodo(r, ok)

\* The buttons of the To-Do List view, whose listbox shows self.todo_list.
ToggleTodoCompletion(ok) ==
    \E selection \in 0..Len(todo_list) :
        SetTodo(toggle_todo_completion(todo_list, selection), ok)

RemoveTodoItem(ok) ==
    \E selection \in 0..Len(todo_list) :
        SetTodo(remove_todo_item(todo_list, selection), ok)

\* The Save button of the scratchpad card (or Ctrl+S with the scratchpad in
\* focus), with typed in the text widget.
SaveScratchpadOf(typed, ok) ==
    /\ variant = "main"
    /\ app = "running"
    /\ LET r == save_scratchpad(scratchpad_file, scratchpad_content, strip(typed), ok)
       IN /\ scratchpad_content' = r.content
          /\ scratchpad_file' = r.file
    /\ outcome' = IF ok THEN "ok" ELSE "SaveError"
    /\ UNCHANGED <<variant, courses, courses_file, notes_windows, search_results,
                   pomodoro_vars, task_vars, run_vars, todo_list, todo_file,
                   after_auto_save, after_rotate_quote>>

SaveScratchpad(ok) == \E typed \in ScratchTexts : SaveScratchpadOf(typed, ok)

\* The timer, followed for the first MaxTicks seconds of an interval.
EarlyInInterval == pomodoro_time_left > POMODORO_MODES(pomodoro_mode) - MaxTicks

DeskStartPomodoro == EarlyInInterval /\ StartPomodoro(TRUE)

DeskCountdownFires == EarlyInInterval /\ CountdownFires(TRUE)

NextDesk ==
    \/ \E ok \in BOOLEAN : AddNewCourse(ok)
    \/ \E ok \in BOOLEAN : AddTodoItem(ok)
    \/ \E ok \in BOOLEAN : SaveScratchpad(ok)
    \/ \E okc, okt, oks \in BOOLEAN : AutoSaveWith(okc, okt, oks)
    \/ RotateQuote
    \/ DeskStartPomodoro
    \/ PausePomodoro
    \/ DeskCountdownFires
    \/ \E yes, okc, okt, okp, oks \in BOOLEAN : OnClosingWith(yes, okc, okt, okp, oks)

SpecDesk == InitWindows /\ [][NextDesk]_vars

\* The to-do list and the statistics window.
NextTodo ==
    \/ AddNewCourse(TRUE)
    \/ AddTodoItem(TRUE)
    \/ ToggleTodoCompletion(TRUE)
    \/ RemoveTodoItem(TRUE)

SpecTodo == InitWindows /\ [][NextTodo]_vars


(***************************************************************************)
(* The single-file variant at work: courses, notes and tasks together,     *)
(* with writes that may fail.                                              *)
(***************************************************************************)
MaxItems == 3          \* courses, notes and tasks the single-file variant holds together

ItemsHeld == Len(courses) + TotalNotes(courses) + Len(tasks) + Len(completed_tasks)

\* The note forms, with one text typed.
M1SaveNoteTyped(ok) == M1SaveNoteOf(<<"a", "B", " ">>, ok)

M1SaveTemplateTyped(ok) ==
    M1SaveTemplateOf("Cornell", [i \in 1..Len(TEMPLATES("Cornell")) |-> <<"a", "B">>], ok)

\* Every operation of the single-file variant that changes courses, notes or
\* tasks, with a write that succeeds or fails as ok says.
M1Operation(ok) ==
    \/ M1AddCourse(ok)
    \/ M1DeleteCourse(ok)
    \/ M1SaveNoteTyped(ok)
    \/ M1SaveTemplateTyped(ok)
    \/ M1DeleteNote(ok)
    \/ AddTask(ok)
    \/ \E index \in 1..Len(tasks) : CompleteTask(index, ok)
    \/ \E row \in 1..dashboard_rows(completed_tasks) : RestoreTask(row, ok)
    \/ DeleteCompletedTask(ok)

Few == ItemsHeld <= MaxItems

\* The writes of the two add operations may fail; the others then write a file
\* that is behind memory.
NextM1 ==
    \/ \E ok \in BOOLEAN : M1AddCourse(ok) /\ Few'
    \/ M1DeleteCourse(TRUE)
    \/ M1SaveNoteTyped(TRUE) /\ Few'
    \/ M1SaveTemplateTyped(TRUE) /\ Few'
    \/ M1DeleteNote(TRUE)
    \/ \E ok \in BOOLEAN : AddTask(ok) /\ Few'
    \/ \E index \in 1..Len(tasks) : CompleteTask(index, TRUE)
    \/ \E row \in 1..dashboard_rows(completed_tasks) : RestoreTask(row, TRUE)
    \/ DeleteCompletedTask(TRUE)

SpecM1 == InitTasks /\ [][NextM1]_vars


(***************************************************************************)
(* Template forms opened for a key the catalog holds and for one it does   *)
(* not hold.  The buttons of both variants pass registered keys only;      *)
(* open_template itself takes any key.                                     *)
(***************************************************************************)
\* A key neither TEMPLATE_FIELDS nor TEMPLATES holds.
UnregisteredKeys == {"Outline"}

\* The form of a registered template, saved with every field filled in.
SaveTemplateTyped(ok) ==
    \E template_key \in TemplateChoices :
        SaveTemplateNoteOf(template_key,
                           [i \in 1..Len(TEMPLATE_FIELDS(template_key)) |-> <<"a", "B">>], ok)

\* The form built for an unregistered key has no field; its Save button passes
\* the empty field_inputs.
SaveUnregisteredTemplate(ok) ==
    \E template_key \in UnregisteredKeys :
        \E field_inputs \in [1..Len(TEMPLATE_FIELDS(template_key)) -> FieldTexts] :
            SaveTemplateNoteOf(template_key, field_inputs, ok)

M1SaveUnregisteredTemplate(ok) ==
    \E template_key \in UnregisteredKeys :
        \E field_inputs \in [1..Len(TEMPLATES(template_key)) -> FieldTexts] :
            M1SaveTemplateOf(template_key, field_inputs, ok)

NextTemplates ==
    \/ AddNewCourse(TRUE)
    \/ SaveTemplateTyped(TRUE)
    \/ SaveUnregisteredTemplate(TRUE)
    \/ M1AddCourse(TRUE)
    \/ M1SaveTemplateTyped(TRUE)
    \/ M1SaveUnregisteredTemplate(TRUE)

SpecTemplates == InitCourses /\ [][NextTemplates]_vars


(***************************************************************************)
(* Several notes windows at a time: view_course_notes opens a new Toplevel *)
(* on every call and nothing closes the earlier ones.                      *)
(***************************************************************************)
MaxViews == 2          \* notes windows open side by side
MaxHeld == 5           \* courses, notes and notes windows held at one time

Held == Len(courses) + TotalNotes(courses) + Len(notes_windows)

\* A course added while notes windows are open.
AddNewCourseBeside ==
    /\ Held < MaxHeld
    /\ AddNewCourse(TRUE)

\* The View Notes button pressed while other notes windows are open.
ViewCourseNotesBeside ==
    /\ variant = "main"
    /\ Len(notes_windows) < MaxViews
    /\ Held < MaxHeld
    /\ \E course_name \in CourseNames(courses) :
          LET v == view_course_notes(courses, notes_windows, course_name)
          IN SetCourses(Result(courses, v.outcome, FALSE), v.windows, TRUE)

\* A freeform note typed while notes windows are open.
SaveFreeformNoteBeside ==
    /\ Held < MaxHeld
    /\ SaveFreeformNoteOf(<<"a", "B", " ">>, TRUE)

NextViews ==
    \/ AddNewCourseBeside
    \/ SaveFreeformNoteBeside
    \/ ViewCourseNotesBeside
    \/ DeleteSelectedNote(TRUE)

SpecViews == InitWindows /\ [][NextViews]_vars

(***************************************************************************)
(* The timer left to run: Start is pressed, nobody pauses, resets or       *)
(* closes, and Tk's main loop runs every callback that after() scheduled   *)
(* once its delay has passed.                                              *)
(***************************************************************************)
NextCountdown ==
    \/ StartPomodoro(TRUE)
    \/ CountdownFires(TRUE)

SpecCountdown ==
    InitPomodoro /\ [][NextCountdown]_vars /\ WF_vars(CountdownFires(TRUE))

(***************************************************************************)
(* Course names and the course menu of the note forms: the menu lists      *)
(* "Select Course" followed by the names of the courses.                   *)
(***************************************************************************)
\* The names typed into the add-course dialogs.
MenuNames == {SelectCourse, <<"b">>}

AddCourseCalled == \E name_entry \in MenuNames : AddNewCourseNamed(name_entry, TRUE)

M1AddCourseCalled == \E name \in MenuNames : M1AddCourseNamed(TRUE, name, TRUE)

NextNames ==
    \/ AddCourseCalled
    \/ SaveFreeformNoteOf(<<"a", "B", " ">>, TRUE)
    \/ SaveTemplateTyped(TRUE)
    \/ M1AddCourseCalled
    \/ M1SaveNoteTyped(TRUE)
    \/ M1SaveTemplateTyped(TRUE)

SpecNames == InitCourses /\ [][NextNames]_vars

(***************************************************************************)
(* The scratchpad typed over and cleared, beside the to-do list.           *)
(***************************************************************************)
\* What the scratchpad widget holds when Save is pressed: nothing, a blank,
\* or a text.
ClearedTexts == {<<>>, <<" ">>, <<"n", " ">>, <<"m">>}

SaveScratchpadTyped(ok) == \E typed \in ClearedTexts : SaveScratchpadOf(typed, ok)

NextScratch ==
    \/ \E ok \in BOOLEAN : SaveScratchpadTyped(ok)
    \/ \E ok \in BOOLEAN : AddTodoItem(ok)
    \/ RemoveTodoItem(TRUE)

SpecScratch == InitWindows /\ [][NextScratch]_vars

(***************************************************************************)
(* The dashboard of the single-file variant drawn over a long history:     *)
(* the program starts on a data file holding completed records and one of  *)
(* the history's buttons is pressed.                                       *)
(***************************************************************************)
MaxCompleted == 12     \* completed records in the data file at startup

\* n completed records with the descriptions "m", "mm", "mmm", ...
History(n) ==
    [k \in 1..n |-> [task |-> [j \in 1..k |-> "m"], completed_date |-> <<"0", "1">>]]

InitDashboard ==
    /\ variant = "master1"
    /\ IdleCourses
    /\ IdlePomodoro
    /\ FirstRun
    /\ tasks = <<>>
    /\ \E n \in 0..MaxCompleted :
          /\ completed_tasks = History(n)
          /\ data_file = Stored([courses |-> <<>>, tasks |-> <<>>,
                                 completed_tasks |-> History(n)])

\* Nothing has been pressed since the data was loaded.
JustLoaded == outcome = None

\* The Delete button of row row of the history, confirmed.
DeleteCompletedRow(row, ok) ==
    /\ variant = "master1"
    /\ row \in 1..dashboard_rows(completed_tasks)
    /\ SetTasks(permanently_delete_task(Here, actual_index(completed_tasks, row)),
                "ok", TRUE, ok)

NextDashboard ==
    \/ JustLoaded /\ \E row \in 1..dashboard_rows(completed_tasks) : RestoreTask(row, TRUE)
    \/ JustLoaded /\ \E row \in 1..dashboard_rows(completed_tasks) :
                        DeleteCompletedRow(row, TRUE)

SpecDashboard == InitDashboard /\ [][NextDashboard]_vars

(***************************************************************************)
(* Properties of the Pomodoro timer.                                       *)
(***************************************************************************)
\* The steps in which _update_pomodoro_timer takes its completion branch: it is
\* called by a countdown callback or by start_pomodoro, and finds time_left <= 0.
Completion ==
    /\ pomodoro_time_left <= 0
    /\ \/ CountdownFires(TRUE)
       \/ ~pomodoro_running /\ StartPomodoro(TRUE)

\* C1: the count starts at 0; a Work completion raises it by one and chooses
\* Long Break exactly when the raised count is a multiple of 4, Short Break
\* otherwise; a break completion chooses Work.  So the fourth Work completion
\* leaves the count at 4.
C1_Cadence ==
    /\ pomodoro_count = 0
    /\ [][Completion =>
            IF pomodoro_mode = "Work"
            THEN /\ pomodoro_count' = pomodoro_count + 1
                 /\ pomodoro_mode' = IF pomodoro_count' % 4 = 0
                                     THEN "Long Break" ELSE "Short Break"
            ELSE pomodoro_mode' = "Work"]_vars

C1_Witness ==
    /\ pomodoro_count = 4
    /\ Len(study_sessions) = sessions_loaded + 4
    /\ pomodoro_mode = "Long Break"
    /\ pomodoro_time_left = 15 * 60
    /\ ~pomodoro_running

\* C2: a step appends to the session log only if it is the completion of a Work
\* interval, and then it appends exactly one record (duration 1500, mode
\* "Pomodoro") and raises the count by exactly one; every other step, a break
\* completion included, leaves the log and the count as they were.
C2_NoDoubleCount ==
    [][IF Completion /\ pomodoro_mode = "Work"
       THEN /\ study_sessions' = Append(study_sessions,
                                        [duration |-> 1500, mode |-> "Pomodoro"])
            /\ pomodoro_count' = pomodoro_count + 1
       ELSE /\ study_sessions' = study_sessions
            /\ pomodoro_count' = pomodoro_count]_vars

\* Two Work intervals and the break after the second have completed.
C2_Witness ==
    /\ pomodoro_count = 2
    /\ Len(study_sessions) = sessions_loaded + 2
    /\ pomodoro_mode = "Work"
    /\ pomodoro_time_left = 25 * 60
    /\ pomodoro_timer_id # None
    /\ ~pomodoro_running

AddCourseStep(n) == AddNewCourseNamed(n, TRUE) \/ M1AddCourseNamed(TRUE, n, TRUE)

Occurrences(cs, name) == Cardinality({i \in 1..Len(cs) : cs[i].name = name})

\* C4: adding a non-blank name that is not yet present succeeds, and the name is
\* then in the collection exactly once, with no notes and no tasks; adding a name
\* that is present (compared exactly, case included) is rejected and leaves every
\* course, notes included, as it was.
C4_AddCourse ==
    [][\A n \in NameEntries :
          (strip(n) # <<>> /\ AddCourseStep(n)) =>
             IF HasCourse(courses, strip(n))
             THEN outcome' = "DuplicateName" /\ courses' = courses
             ELSE /\ outcome' = "ok"
                  /\ Occurrences(courses', strip(n)) = 1
                  /\ NotesOf(courses', strip(n)) = <<>>
                  /\ courses'[CourseAt(courses', strip(n))].tasks = <<>>
                  /\ SubSeq(courses', 1, Len(courses)) = courses]_vars

\* "B" and "b" are two courses, one of them holds a note, and the last attempt
\* to add one of them again was rejected.
C4_Witness ==
    /\ outcome = "DuplicateName"
    /\ CourseNames(courses) = {<<"B">>, <<"b">>}
    /\ TotalNotes(courses) > 0

\* A step of an operation that notes window w addresses to its course: Export
\* Notes, or Delete Selected with a row selected.
WindowStep(w) ==
    \/ ExportFromWindow(w)
    \/ \E selection \in 1..notes_windows[w].rows : DeleteSelectedFromWindow(w, selection, TRUE)

\* C5: deleting a course removes it with all its notes, and every later
\* operation addressed to its name (here from a notes window that is still
\* open) ends in NotFound and changes nothing.
C5_DeletedCourseNotFound ==
    /\ [][\A name \in CourseNames(courses) :
             DeleteCourseNamed(name, TRUE, TRUE) =>
                /\ ~HasCourse(courses', name)
                /\ TotalNotes(courses') = TotalNotes(courses) - Len(NotesOf(courses, name))]_vars
    /\ [][\A w \in 1..Len(notes_windows) :
             (~HasCourse(courses, notes_windows[w].course) /\ WindowStep(w)) =>
                outcome' = "NotFound" /\ courses' = courses]_vars

\* The text of a note is blank: the body of a freeform note, or every field of a
\* template note.
BlankNote(note) ==
    IF variant = "main"
    THEN IF note.content.kind = "str" THEN strip(note.content.text) = <<>>
         ELSE all_empty(note.content.items)
    ELSE IF "content" \in DOMAIN note THEN strip(note.content) = <<>>
         ELSE all_empty(note.data)

NoBlankNote ==
    \A i \in 1..Len(courses) : \A j \in 1..Len(courses[i].notes) : ~BlankNote(courses[i].notes[j])

BlankFields(field_inputs) == \A i \in DOMAIN field_inputs : strip(field_inputs[i]) = <<>>

\* A step that saves a note, of either kind and in either variant, whose typed
\* text is blank.
BlankSaveStep ==
    \/ \E content \in BodyTexts :
          /\ strip(content) = <<>>
          /\ SaveFreeformNoteOf(content, TRUE) \/ M1SaveNoteOf(content, TRUE)
    \/ \E template_key \in TemplateChoices :
          \E field_inputs \in [1..Len(TEMPLATE_FIELDS(template_key)) -> FieldTexts] :
             BlankFields(field_inputs) /\ SaveTemplateNoteOf(template_key, field_inputs, TRUE)
    \/ \E template_key \in M1TemplateChoices :
          \E field_inputs \in [1..Len(TEMPLATES(template_key)) -> FieldTexts] :
             BlankFields(field_inputs) /\ M1SaveTemplateOf(template_key, field_inputs, TRUE)

\* C7: no course ever holds a note whose text is entirely blank, and saving a
\* blank freeform body or a template with every field blank appends nothing.
C7_NoEmptyNote ==
    /\ []NoBlankNote
    /\ [][(courses' # courses \/ outcome' \notin {"EmptyContent", "NoCourseSelected"})
             => ~BlankSaveStep]_vars

\* A blank note has just been refused for a course that already holds a
\* template note with a field left empty.
C7_Witness ==
    /\ outcome = "EmptyContent"
    /\ \E i \in 1..Len(courses) : \E j \in 1..Len(courses[i].notes) :
          LET note == courses[i].notes[j]
          IN /\ variant = "main"
             /\ note.content.kind = "dict"
             /\ \E k \in 1..Len(note.content.items) : note.content.items[k].value = <<>>

(***************************************************************************)
(* Properties of search.                                                   *)
(***************************************************************************)
\* The note holds q, case ignored, in its title, its body or one of its fields.
NoteHolds(note, q) ==
    \/ Contains(lower(q), lower(note.title))
    \/ /\ note.content.kind = "str"
       /\ Contains(lower(q), lower(note.content.text))
    \/ /\ note.content.kind = "dict"
       /\ \E k \in 1..Len(note.content.items) :
             Contains(lower(q), lower(note.content.items[k].value))

\* The places <<course, note>> of the notes that hold q.
HoldingPlaces(cs, q) ==
    {pl \in (1..Len(cs)) \X (1..MaxNotes + 1) :
        pl[2] <= Len(cs[pl[1]].notes) /\ NoteHolds(cs[pl[1]].notes[pl[2]], q)}

Before(p1, p2) == p1[1] < p2[1] \/ (p1[1] = p2[1] /\ p1[2] < p2[2])

\* res lists the notes of cs that hold q, once each, by course and then by note;
\* a freeform note that holds q in its body only is a content match.
ListsTheHolders(res, cs, q) ==
    /\ Len(res) = Cardinality(HoldingPlaces(cs, q))
    /\ \E at \in [1..Len(res) -> HoldingPlaces(cs, q)] :
          /\ \A k \in 1..Len(res) - 1 : Before(at[k], at[k + 1])
          /\ \A k \in 1..Len(res) :
                LET note == cs[at[k][1]].notes[at[k][2]]
                IN /\ res[k].course = cs[at[k][1]].name
                   /\ res[k].title = note.title
                   /\ (note.content.kind = "str" /\ ~Contains(lower(q), lower(note.title)))
                         => res[k].match = <<"Content match">>

\* C8: a search for a non-blank q lists exactly the notes that hold q, one result
\* each, by course and then by note, a body-only match as a content match; a
\* search for a blank q ends in EmptyQuery and shows no result list.
C8_Search ==
    [][\A q \in Queries :
          ShowSearchDialogFor(TRUE, q) =>
             IF strip(q) = <<>>
             THEN outcome' = "EmptyQuery" /\ search_results' = search_results
             ELSE /\ Len(search_results') = Len(search_results) + 1
                  /\ ListsTheHolders(search_results'[Len(search_results')].results,
                                     courses, q)]_vars

(***************************************************************************)
(* Properties of tasks.                                                    *)
(***************************************************************************)
Descriptions(done) == [k \in 1..Len(done) |-> done[k].task]

\* C6: completing active task i removes it from the active list and appends a
\* record with its description to the completed list; restoring completed
\* record j removes it from the completed list and appends its description to
\* the tail of the active list; so completing task i and then restoring that
\* record leaves the completed list as it was and the active list with the same
\* descriptions, the restored one last.
C6_TaskLifecycle ==
    /\ [][\A i \in 1..Len(tasks) :
             CompleteTask(i, TRUE) =>
                /\ tasks' = DelAt(tasks, i)
                /\ Len(completed_tasks') = Len(completed_tasks) + 1
                /\ SubSeq(completed_tasks', 1, Len(completed_tasks)) = completed_tasks
                /\ completed_tasks'[Len(completed_tasks')].task = tasks[i]]_vars
    /\ [][\A row \in 1..dashboard_rows(completed_tasks) :
             RestoreTask(row, TRUE) =>
                LET j == actual_index(completed_tasks, row)
                IN /\ completed_tasks' = DelAt(completed_tasks, j)
                   /\ tasks' = Append(tasks, completed_tasks[j].task)]_vars
    /\ [](\A i \in 1..Len(tasks), now \in Timestamps :
             LET done == delete_task(Here, i, now)
                 back == restore_task(done, actual_index(done.completed_tasks, 1))
             IN /\ back.completed_tasks = completed_tasks
                /\ back.tasks = Append(DelAt(tasks, i), tasks[i]))

\* A task that was not the last of three has been completed and restored: it is
\* now the last, and the history holds what it held.
C6_Witness ==
    /\ tasks = <<<<"n">>, <<"m">>, <<"m">>>>
    /\ Descriptions(completed_tasks) = <<<<"n">>>>
    /\ outcome = "ok"

(***************************************************************************)
(* Properties of persistence.                                              *)
(***************************************************************************)
\* The courses without the Python type of the (title, content) pairs.
Unshaped(cs) ==
    [i \in 1..Len(cs) |->
        [cs[i] EXCEPT !.notes =
            [j \in 1..Len(cs[i].notes) |->
                [title |-> cs[i].notes[j].title, content |-> cs[i].notes[j].content]]]]

C10_CorruptPreserved ==
    /\ [][(Start /\ courses_file = Corrupt) => (app' = "running" /\ courses' = <<>>)]_vars
    /\ [][(M1Start /\ data_file = Corrupt) => (app' = "running" /\ courses' = <<>>)]_vars
    /\ []/\ "courses" \in load_failed => courses_file = Corrupt
         /\ "sessions" \in load_failed => sessions_file = Corrupt
         /\ "data" \in load_failed => data_file = Corrupt


(***************************************************************************)
(* Properties of saving, the periodic callbacks and the close request.     *)
(***************************************************************************)
\* A firing of _auto_save in which at least one of the three writes fails.
FailedAutoSave ==
    /\ outcome' = "SaveError"
    /\ \E okc, okt, oks \in BOOLEAN : ~(okc /\ okt /\ oks) /\ AutoSaveWith(okc, okt, oks)

\* An operation on the to-do list whose write fails.
FailedTodoSave == todo_list' # todo_list /\ AddTodoItem(FALSE)

\* C11: a save that fails leaves the courses, the tasks and the study sessions
\* in memory as they were and the program running, and the _auto_save callback
\* is pending again after a firing that failed, so that a later firing writes
\* again.
C11_FailedSave ==
    /\ [][FailedAutoSave =>
            /\ courses' = courses
            /\ todo_list' = todo_list
            /\ study_sessions' = study_sessions
            /\ app' = "running"
            /\ after_auto_save']_vars
    /\ [][FailedTodoSave =>
            /\ courses' = courses
            /\ study_sessions' = study_sessions
            /\ app' = "running"
            /\ after_auto_save']_vars

\* A firing of _auto_save has failed on a run whose courses and tasks are not
\* on disk, and the program runs on with the callback pending.
C11_Witness ==
    /\ outcome = "SaveError"
    /\ scratchpad_content = Welcome
    /\ app = "running"
    /\ after_auto_save
    /\ courses # <<>>
    /\ courses_file = Absent
    /\ todo_list # <<>>
    /\ todo_file = Absent

\* A close request that goes on to destroy the root window.
ClosingProceeds == app = "running" /\ app' = "closed"

\* The callbacks Tk could run.
TimerCallback ==
    \/ AutoSaveWith(TRUE, TRUE, TRUE)
    \/ RotateQuote
    \/ CountdownFires(TRUE)

\* C12: a close request that proceeds writes the courses, the tasks, the
\* scratchpad and the study sessions, whatever was written before, before the
\* program terminates (each file holds the record in memory unless a write
\* failed), and once the program has terminated no countdown, autosave or
\* quote-rotation callback can run.
C12_CloseSaves ==
    /\ [][ClosingProceeds /\ outcome' # "SaveError" =>
            /\ courses_file' = Stored(json_dump(courses))
            /\ todo_file' = Stored(todo_list)
            /\ scratchpad_file' = Stored(scratchpad_content)
            /\ sessions_file' = Stored(study_sessions)
            /\ UNCHANGED <<courses, todo_list, scratchpad_content, study_sessions>>]_vars
    /\ [](app = "closed" => ~ENABLED TimerCallback)

\* The program was closed with the timer running and callbacks pending, and
\* the four files hold what was in memory.
C12_Witness ==
    /\ app = "closed"
    /\ pomodoro_running
    /\ after_countdown.live
    /\ after_auto_save
    /\ after_rotate_quote
    /\ courses # <<>>
    /\ courses_file = Stored(json_dump(courses))
    /\ todo_list # <<>>
    /\ todo_file = Stored(todo_list)
    /\ scratchpad_content # Welcome
    /\ scratchpad_file = Stored(scratchpad_content)
    /\ sessions_file = Stored(study_sessions)

\* A close request answered "no".
DeclinedClose ==
    \E okc, okt, okp, oks \in BOOLEAN : OnClosingWith(FALSE, okc, okt, okp, oks)

\* C13: while the timer runs, a close request whose confirmation is declined
\* changes nothing: the program stays open, no file is written, and courses,
\* tasks, scratchpad, session log, timer state and pending callbacks are as
\* before.
C13_DeclinedClose ==
    app = "running" /\ pomodoro_running => ~ENABLED (DeclinedClose /\ vars' # vars)

\* The timer runs with its callback pending while memory is ahead of the files.
C13_Witness ==
    /\ app = "running"
    /\ pomodoro_running
    /\ after_countdown.live
    /\ ENABLED DeclinedClose
    /\ todo_list # <<>>
    /\ todo_file = Absent
    /\ courses # <<>>
    /\ courses_file = Absent


(***************************************************************************)
(* Properties of the statistics.                                           *)
(***************************************************************************)
Statistics == show_statistics(courses, study_sessions, pomodoro_count)

\* C14: after any sequence of add-task, toggle-completion and remove-task, the
\* total task count of the statistics is the number of tasks in the to-do list
\* and the completed count is the number of completed tasks in that list.
C14_TaskCounts ==
    /\ Statistics.total_tasks = Len(todo_list)
    /\ Statistics.completed_tasks
          = Cardinality({i \in 1..Len(todo_list) : todo_list[i].completed})

\* C15: in every reachable state, the state right after _load_data read the log
\* included, the Pomodoro-sessions figure of the statistics is the number of
\* Work sessions recorded in the study-session log.
C15_PomodoroFigure ==
    Statistics.total_pomodoros
        = Cardinality({i \in 1..Len(study_sessions) : study_sessions[i].mode = "Pomodoro"})


(***************************************************************************)
(* Properties of the single-file variant's saving.                         *)
(***************************************************************************)
\* self.courses, self.tasks and self.completed_tasks as _save_data writes them.
M1Memory == [courses |-> courses, tasks |-> tasks, completed_tasks |-> completed_tasks]

\* C16: every operation of the single-file variant that changes the courses,
\* the notes, the active tasks or the completed tasks calls _save_data before
\* it returns: after an operation whose write succeeded the file holds the data
\* in memory.
C16_SavedAfterChange ==
    [][M1Memory' # M1Memory /\ M1Operation(TRUE) => data_file' = Stored(M1Memory')]_vars

\* Operations have changed the courses and the tasks, and the file holds what
\* memory holds, a completed task included.
C16_Witness ==
    /\ outcome = "ok"
    /\ data_file = Stored(M1Memory)
    /\ courses # <<>>
    /\ completed_tasks # <<>>


(***************************************************************************)
(* Properties of start, reset and the session log.                         *)
(***************************************************************************)
\* C17: start_pomodoro on a stopped timer sets running, sets the session start
\* if it was unset, and itself changes neither the mode, nor time_left, nor the
\* count; on a running timer it changes nothing and adds no second callback.
C17_StartOnly ==
    /\ [][~pomodoro_running /\ StartPomodoro(TRUE) =>
            /\ pomodoro_running'
            /\ session_start_time' # None
            /\ session_start_time # None => session_start_time' = session_start_time
            /\ pomodoro_mode' = pomodoro_mode
            /\ pomodoro_time_left' = pomodoro_time_left
            /\ pomodoro_count' = pomodoro_count]_vars
    /\ [](pomodoro_running => ~ENABLED (StartPomodoro(TRUE) /\ vars' # vars))

\* reset_pomodoro(mode) is called from the mode buttons and the Reset button.
ResetTo(mode) == SetPomodoro(reset_pomodoro(PomodoroState, mode), TRUE)

\* C18: reset_pomodoro, from any state and for any mode or none, leaves no
\* countdown callback pending, the timer stopped and the session start unset,
\* the mode as given (Work if none) with time_left that mode's duration, and
\* the count and the session log as they were.
C18_Reset ==
    [][\A mode \in Modes \cup {None} :
          ResetTo(mode) =>
             /\ PendingCountdown' = {}
             /\ ~pomodoro_running'
             /\ session_start_time' = None
             /\ pomodoro_mode' = (IF mode = None THEN "Work" ELSE mode)
             /\ pomodoro_time_left' = POMODORO_MODES(pomodoro_mode')
             /\ pomodoro_count' = pomodoro_count
             /\ study_sessions' = study_sessions]_vars

\* A Work interval that was running has been given up by a reset to a break,
\* after one completed Work interval.
C18_Witness ==
    /\ pomodoro_mode = "Long Break"
    /\ pomodoro_time_left = POMODORO_MODES("Long Break")
    /\ ~pomodoro_running
    /\ session_start_time = None
    /\ pomodoro_count = 1
    /\ Len(study_sessions) = sessions_loaded + 1

\* C19: the session log only grows at its end: every step leaves the entries
\* it held in place and in order, and a step that adds an entry adds one, as
\* the completion of a Work interval.
C19_AppendOnly ==
    [][/\ Len(study_sessions') >= Len(study_sessions)
       /\ SubSeq(study_sessions', 1, Len(study_sessions)) = study_sessions
       /\ study_sessions' # study_sessions =>
             /\ Len(study_sessions') = Len(study_sessions) + 1
             /\ Completion
             /\ pomodoro_mode = "Work"]_vars

\* A log loaded at startup has grown by two sessions.
C19_Witness ==
    /\ sessions_loaded = 1
    /\ Len(study_sessions) = 3
    /\ pomodoro_count = 2


(***************************************************************************)
(* Properties of the template catalog.                                     *)
(***************************************************************************)
\* The Save button of a form opened for an unregistered key.
UnregisteredSave == SaveUnregisteredTemplate(TRUE) \/ M1SaveUnregisteredTemplate(TRUE)

\* C20: saving a template note whose key the catalog does not hold appends no
\* note to any course, whichever course is selected.
C20_UnregisteredTemplate ==
    [][outcome' # "ok" \/ ~UnregisteredSave]_vars
    /\ [][UnregisteredSave => courses' = courses]_vars

\* Such a save was turned down as empty although a course holding a template
\* note was there to take it.
C20_Witness ==
    /\ outcome = "EmptyContent"
    /\ TotalNotes(courses) > 0


(***************************************************************************)
(* Properties of deleting a note by its position.                          *)
(***************************************************************************)
\* The notes of course name after the step are those before it without the
\* one at position idx: the earlier ones stay, the later ones move down by one.
RemovedAt(name, idx) ==
    LET before == NotesOf(courses, name)
        after == NotesOf(courses', name)
    IN /\ Len(after) = Len(before) - 1
       /\ \A j \in 1..Len(after) : after[j] = IF j < idx THEN before[j] ELSE before[j + 1]

OthersKept(name) ==
    /\ CourseNames(courses') = CourseNames(courses)
    /\ \A other \in CourseNames(courses) \ {name} :
          NotesOf(courses', other) = NotesOf(courses, other)

\* C21: deleting the note at a position inside the course's note sequence
\* removes exactly that note, keeps the order of the others and leaves the
\* other courses alone; at a position outside the sequence it fails with the
\* index error and removes nothing.
C21_DeleteByPosition ==
    [][\A w \in 1..Len(notes_windows) : \A selection \in 1..notes_windows[w].rows :
          (/\ HasCourse(courses, notes_windows[w].course)
           /\ DeleteSelectedFromWindow(w, selection, TRUE)) =>
             LET name == notes_windows[w].course
             IN IF selection <= Len(NotesOf(courses, name))
                THEN \/ outcome' = "Cancelled" /\ courses' = courses
                     \/ outcome' = "ok" /\ RemovedAt(name, selection) /\ OthersKept(name)
                ELSE outcome' = "IndexError" /\ courses' = courses]_vars

\* The first of two notes was deleted with a second course present: the window
\* was redrawn with one row.
C21_Witness ==
    /\ outcome = "ok"
    /\ Len(courses) = 2
    /\ Len(notes_windows) = 1
    /\ notes_windows[1].rows = 1
    /\ Len(NotesOf(courses, notes_windows[1].course)) = 1
    /\ courses_file = Stored(json_dump(courses))

\* A position outside the sequence was selected and nothing was removed.
C21_OutsideWitness == outcome = "IndexError" /\ TotalNotes(courses) = 0


(***************************************************************************)
(* Properties of notes windows open side by side.                          *)
(***************************************************************************)
\* Row selection of window w is the note now at that position of its course.
RowIsCurrent(w, selection) ==
    LET notes == NotesOf(courses, notes_windows[w].course)
    IN /\ selection <= Len(notes)
       /\ notes[selection].title = notes_windows[w].listbox[selection]

\* C23: Delete Selected in a notes window removes the note shown in the
\* selected row, never another note, and never fails with a position out of
\* range, also when another window of the same course has deleted a note
\* since this window was drawn.
C23_DeletesSelected ==
    [][\A w \in 1..Len(notes_windows) : \A selection \in 1..notes_windows[w].rows :
          (/\ HasCourse(courses, notes_windows[w].course)
           /\ DeleteSelectedFromWindow(w, selection, TRUE)) =>
             /\ outcome' # "IndexError"
             /\ outcome' = "ok" => RowIsCurrent(w, selection)]_vars


(***************************************************************************)
(* Properties of the autosave.                                             *)
(***************************************************************************)
\* C22: after an autosave firing whose writes all succeed, the stored courses,
\* tasks, scratchpad and study sessions equal the values in memory, and the
\* autosave is pending again.
C22_AutoSaveAll ==
    [][AutoSaveWith(TRUE, TRUE, TRUE) =>
          /\ courses_file' = Stored(json_dump(courses'))
          /\ todo_file' = Stored(todo_list')
          /\ sessions_file' = Stored(study_sessions')
          /\ scratchpad_file' = Stored(scratchpad_content')
          /\ after_auto_save']_vars


(***************************************************************************)
(* Properties of the countdown callback and of the session bookkeeping.    *)
(***************************************************************************)
\* The number of _update_pomodoro_timer callbacks Tk holds.
PendingCount == (IF after_countdown.live THEN 1 ELSE 0) + after_countdown.stale

\* C24: whatever start, pause, reset, tick and completion events have
\* happened, at most one countdown callback is pending, one is pending exactly
\* when running is true, and pause and reset leave none pending.
C24_OneCountdown ==
    /\ [](PendingCount <= 1 /\ (PendingCount = 1 <=> pomodoro_running))
    /\ [][PausePomodoro \/ ResetPomodoro => PendingCount' = 0]_vars

\* A break restarted after a pause is counting down with its one callback.
C24_Witness ==
    /\ pomodoro_running
    /\ PendingCount = 1
    /\ pomodoro_mode = "Short Break"
    /\ pomodoro_count = 1
    /\ pomodoro_time_left < POMODORO_MODES("Short Break") - 2

\* C25: a running timer has its session start set; so every completion of a
\* Work interval finds it set and logs one session, and the sessions appended
\* since startup are as many as the completed Work intervals counted.
C25_SessionsCounted ==
    /\ [](pomodoro_running => session_start_time # None)
    /\ [](Len(study_sessions) - sessions_loaded = pomodoro_count)
    /\ [][Completion /\ pomodoro_mode = "Work" =>
            Len(study_sessions') = Len(study_sessions) + 1]_vars

\* The third Work interval is running after two were completed and logged.
C25_Witness ==
    /\ pomodoro_running
    /\ session_start_time # None
    /\ pomodoro_mode = "Work"
    /\ pomodoro_count = 2
    /\ Len(study_sessions) = sessions_loaded + 2


(***************************************************************************)
(* Properties of the timer left to run.                                    *)
(***************************************************************************)
\* C26: with no pause, reset or close and the countdown callbacks firing, a
\* started timer eventually stops, and when it stops the mode has advanced to
\* the next mode, time_left is that mode's full duration and the next
\* interval has not been started.
C26_IntervalCompletes ==
    /\ pomodoro_running ~> ~pomodoro_running
    /\ [][pomodoro_running /\ ~pomodoro_running' =>
            /\ pomodoro_mode' = next_mode(pomodoro_mode, pomodoro_count')
            /\ pomodoro_time_left' = POMODORO_MODES(pomodoro_mode')
            /\ PendingCount' = 0]_vars

\* The long break after the fourth Work interval has run out.
C26_Witness ==
    /\ ~pomodoro_running
    /\ pomodoro_mode = "Work"
    /\ pomodoro_count = 4
    /\ pomodoro_time_left = POMODORO_MODES("Work")
    /\ session_start_time = None


(***************************************************************************)
(* Properties of course names.                                             *)
(***************************************************************************)
\* The results of the Save Note buttons with the course chosen in the menu
\* and non-blank text typed.
NoteSaves(course) ==
    IF variant = "main"
    THEN {save_freeform_note(courses, course, <<"a", "B", " ">>, title, now) :
             title \in TitleEntries, now \in Timestamps}
         \cup {save_template_note(courses, template_key, course,
                                  [i \in 1..Len(TEMPLATE_FIELDS(template_key)) |-> <<"a", "B">>],
                                  now) :
                  template_key \in TemplateChoices, now \in Timestamps}
    ELSE {save_note(courses, course, title, <<"a", "B", " ">>, now) :
             title \in TitleEntries, now \in Timestamps}
         \cup {save_template(courses, template_key, course,
                             [i \in 1..Len(TEMPLATES(template_key)) |-> <<"a", "B">>], now) :
                  template_key \in M1TemplateChoices, now \in Timestamps}

NoteSavedTo(course) ==
    \E r \in NoteSaves(course) : courses' = r.courses /\ outcome' = r.outcome

\* C27: every course that add-course accepted can receive notes: a freeform or
\* template note with non-blank content saved to any name of the course
\* collection appends exactly one note to that course.
C27_AcceptedCourseTakesNotes ==
    [][\A course \in CourseNames(courses) :
          NoteSavedTo(course) =>
             /\ outcome' = "ok"
             /\ Len(NotesOf(courses', course)) = Len(NotesOf(courses, course)) + 1]_vars


(***************************************************************************)
(* Properties of the manual scratchpad save.                               *)
(***************************************************************************)
\* C28: a manual scratchpad save whose write succeeds leaves the scratchpad
\* in memory and the stored scratchpad equal to the text saved (the widget's
\* text, trimmed), for every text, the empty one included: a cleared
\* scratchpad is stored as empty.
C28_ScratchpadSaved ==
    [][\A typed \in ClearedTexts :
          SaveScratchpadOf(typed, TRUE) =>
             /\ scratchpad_content' = strip(typed)
             /\ scratchpad_file' = Stored(strip(typed))]_vars


(***************************************************************************)
(* Properties of the task lists as a whole.                                *)
(***************************************************************************)
\* How often description d occurs in the sequence of descriptions.
Count(d, descriptions) ==
    Cardinality({i \in 1..Len(descriptions) : descriptions[i] = d})

Range(descriptions) == {descriptions[i] : i \in 1..Len(descriptions)}

\* One occurrence of one description left the sequence from and joined the
\* sequence to; every other occurrence stayed where it was.
MovedOne(from, from2, to, to2) ==
    \E d \in Range(from) :
       \A e \in Range(from) \cup Range(to) \cup Range(from2) \cup Range(to2) :
          /\ Count(e, from2) = Count(e, from) - (IF e = d THEN 1 ELSE 0)
          /\ Count(e, to2) = Count(e, to) + (IF e = d THEN 1 ELSE 0)

TotalTasks == Len(tasks) + Len(completed_tasks)

\* C29: completing a task and restoring one move exactly one occurrence of
\* one description from one sequence to the other, so the number of tasks and
\* the multiset of descriptions stay as they were and the operation itself
\* puts no description in both sequences; the total rises, by one, only in
\* add-task and falls, by one, only in the permanent deletion.
C29_TasksConserved ==
    [][/\ (\E index \in 1..Len(tasks) : CompleteTask(index, TRUE)) =>
             MovedOne(tasks, tasks',
                      Descriptions(completed_tasks), Descriptions(completed_tasks'))
       /\ (\E row \in 1..dashboard_rows(completed_tasks) : RestoreTask(row, TRUE)) =>
             MovedOne(Descriptions(completed_tasks), Descriptions(completed_tasks'),
                      tasks, tasks')
       /\ TotalTasks' > TotalTasks => TotalTasks' = TotalTasks + 1 /\ AddTask(TRUE)
       /\ TotalTasks' < TotalTasks =>
             TotalTasks' = TotalTasks - 1 /\ DeleteCompletedTask(TRUE)]_vars

\* Two tasks with the descriptions of two completed records, after tasks were
\* completed, restored and deleted for good.
C29_Witness ==
    /\ outcome = "ok"
    /\ Len(tasks) = 2
    /\ Len(completed_tasks) = 2
    /\ Range(tasks) = Range(Descriptions(completed_tasks))
    /\ Cardinality(Range(tasks)) = 2


(***************************************************************************)
(* Properties of the dashboard's history rows.                             *)
(***************************************************************************)
\* The completed records without record.
Without(done, record) ==
    LET keep == {i \in 1..Len(done) : done[i] # record}
    IN [k \in 1..Cardinality(keep) |->
          done[CHOOSE i \in keep : Cardinality({j \in keep : j < i}) = k - 1]]

\* C30: for every length of the completed sequence, the index bound to the
\* buttons of each of the up to ten rows, newest first, is the position of the
\* record that row shows, so restore and delete pressed on a freshly drawn
\* dashboard act on the record in that row.
C30_RowIndex ==
    /\ [](\A row \in 1..dashboard_rows(completed_tasks) :
             completed_tasks[actual_index(completed_tasks, row)]
                = displayed_rows(completed_tasks)[row])
    /\ [][\A row \in 1..dashboard_rows(completed_tasks) :
             LET shown == displayed_rows(completed_tasks)[row]
             IN /\ RestoreTask(row, TRUE) =>
                      /\ tasks' = Append(tasks, shown.task)
                      /\ completed_tasks' = Without(completed_tasks, shown)
                /\ DeleteCompletedRow(row, TRUE) =>
                      /\ tasks' = tasks
                      /\ completed_tasks' = Without(completed_tasks, shown)]_vars

\* The oldest row shown of a history of twelve was restored: the third record.
C30_Witness ==
    /\ outcome = "ok"
    /\ Len(completed_tasks) = 11
    /\ tasks = <<History(3)[3].task>>

=============================================================================
